---- MODULE Spec2Model ----
(***************************************************************************)
(* Swing / contact resolution engine of the batting simulation.            *)
(*                                                                         *)
(* Variants modelled (selected by the variable `variant`):                 *)
(*   "scoring" : src/unnamed/part_001 (difficulty profiles, score, Space)  *)
(*   "main2"   : src/src/main.js lines 600-1258 (timer-based pitch, Z)     *)
(*   "main1"   : src/src/main.js lines 1-599 (contact evaluated once, at   *)
(*               the midpoint of the swing), in a specification of its own *)
(* The grading function of the mouse-click variant (src/unnamed/part_000   *)
(* lines 1-361, classifyHit) is modelled as an operator of its own.        *)
(*                                                                         *)
(* Units: time in milliseconds, lengths in centimetres (the source's       *)
(* metres x 100), accumulator in 1/18000 s (so that 1/90 s, 1/120 s and    *)
(* 1 ms are all whole numbers).  The rigid-body world (cannon-es) and the  *)
(* bat pose (three.js scene graph) are external: the ball position after   *)
(* a physics step and the bat sweet spot are drawn from small sets.        *)
(*                                                                         *)
(* Clock: the code only compares a stored timestamp with performance.now() *)
(* or subtracts one from the other, so every timestamp is kept relative to *)
(* the current instant (stored value minus performance.now(), hence        *)
(* `now` is 0 in every handler).  When time passes all timestamps move     *)
(* into the past together; one that lies further back than any comparison  *)
(* of the code can tell is kept at that floor.                             *)
(***************************************************************************)
EXTENDS Integers, Sequences, FiniteSets, TLC

VARIABLES
    variant,              \* which source variant runs
    currentDifficulty,    \* part_001:107
    sinceFrame,           \* now - THREE.Clock.oldTime, up to the 0.05 s clamp of animate
    accumulator,          \* part_001:1212
    isSwinging,           \* part_001:581
    swingStartMs,         \* part_001:582 (relative to now, <= 0)
    nextSwingAllowedMs,   \* part_001:583 (relative to now, >= 0)
    swingUsedThisPitch,   \* part_001:584
    swingContactResolved, \* part_001:585
    swingMissQueued,      \* part_001:586
    swingForwardDone,     \* main.js:195 (first variant of main.js)
    nextPitchReadyAt,     \* part_001:587 (relative to now, >= 0)
    pitchInFlight,        \* part_001:588
    ballWasHit,           \* part_001:948
    ballLandingTracked,   \* part_001:949
    ballPos,              \* ballBody.position
    ballVel,              \* ballBody.velocity, abstracted to its kind
    ballMesh,             \* ballMesh.position (copied at the end of a frame)
    pciOffsetX,           \* part_001:472
    pciOffsetY,           \* part_001:473
    gameStats,            \* part_001:822
    pitchTimer,           \* main.js:1029 (the timer pitchTimer names, and the browser's other pending pitch timers)
    pitchLog,             \* observation: what happened since the last per-pitch reset
    doneLog,              \* observation: pitchLog as it stood when the last reset cleared it
    swingLog,             \* observation: what happened since the active swing was accepted
    frameLog,             \* observation: what the last handler / frame did
    lastHandler,          \* observation: which handler ran last
    worldClock            \* cannon-es World: its accumulator, and the internal steps of the last frame

vars == << variant, currentDifficulty, sinceFrame, accumulator, isSwinging,
           swingStartMs, nextSwingAllowedMs, swingUsedThisPitch,
           swingContactResolved, swingMissQueued, swingForwardDone, nextPitchReadyAt,
           pitchInFlight, ballWasHit, ballLandingTracked, ballPos, ballVel,
           ballMesh, pciOffsetX, pciOffsetY, gameStats, pitchTimer,
           pitchLog, doneLog, swingLog, frameLog, lastHandler, worldClock >>

(***************************************************************************)
(* Bounds of the model                                                     *)
(***************************************************************************)
\* the session is followed until this many pitches have been scored
\* (outs + fouls + hits)
MaxScored == 1

\* wall-clock advances between two events (ms)
ClockSteps == {100, 1000}

\* Math.random() draws, in percent
RandomDraws == {0, 50}

(***************************************************************************)
(* Configuration                                                           *)
(***************************************************************************)
Merge(a, b) == [k \in (DOMAIN a) \cup (DOMAIN b) |-> IF k \in DOMAIN b THEN b[k] ELSE a[k]]

baseConfig ==
    [ strikeZoneDistance |-> 128, strikeZoneWidth |-> 132, strikeZoneHeight |-> 182,
      swingDurationMs |-> 300, swingCooldownMs |-> 620,
      contactWindowStart |-> 16, contactWindowEnd |-> 84,
      postSwingDelayMinMs |-> 2500, postSwingDelayMaxMs |-> 3600,
      swingWindowZ |-> 150, hitPlaneTolerance |-> 118,
      perfectPciDist |-> 70, goodPciDist |-> 112,
      perfectBatDist |-> 68, goodBatDist |-> 118,
      perfectTiming |-> 62, goodTiming |-> 102 ]

difficultyProfiles ==
    [ easy |->
        [ swingDurationMs |-> 360, swingCooldownMs |-> 720,
          postSwingDelayMinMs |-> 3000, postSwingDelayMaxMs |-> 4200,
          swingWindowZ |-> 185, hitPlaneTolerance |-> 145,
          perfectPciDist |-> 92, goodPciDist |-> 135,
          perfectBatDist |-> 90, goodBatDist |-> 145,
          perfectTiming |-> 82, goodTiming |-> 125 ],
      normal |->
        [ swingDurationMs |-> 330, swingCooldownMs |-> 660,
          postSwingDelayMinMs |-> 2700, postSwingDelayMaxMs |-> 3800,
          swingWindowZ |-> 168, hitPlaneTolerance |-> 130,
          perfectPciDist |-> 82, goodPciDist |-> 122,
          perfectBatDist |-> 80, goodBatDist |-> 130,
          perfectTiming |-> 72, goodTiming |-> 108 ],
      hard |->
        [ swingDurationMs |-> 285, swingCooldownMs |-> 560,
          postSwingDelayMinMs |-> 2200, postSwingDelayMaxMs |-> 3200,
          swingWindowZ |-> 138, hitPlaneTolerance |-> 110,
          perfectPciDist |-> 68, goodPciDist |-> 105,
          perfectBatDist |-> 62, goodBatDist |-> 100,
          perfectTiming |-> 56, goodTiming |-> 88 ] ]

Difficulties == DOMAIN difficultyProfiles

\* the options of the difficulty selector that are picked
PickedModes == {"easy", "hard"}

\* main.js:620 (second variant of main.js)
config ==
    [ strikeZoneDistance |-> 105, strikeZoneWidth |-> 112, strikeZoneHeight |-> 138,
      swingDurationMs |-> 240, swingCooldownMs |-> 340,
      contactWindowStart |-> 26, contactWindowEnd |-> 72,
      pitchIntervalMs |-> 1100,
      swingWindowZ |-> 68, hitPlaneTolerance |-> 50,
      perfectPciDist |-> 22, goodPciDist |-> 45,
      perfectBatDist |-> 23, goodBatDist |-> 42,
      perfectTiming |-> 15, goodTiming |-> 32 ]

\* main.js:12 (first variant of main.js)
configMain1 ==
    [ strikeZoneDistance |-> 78, strikeZoneWidth |-> 125, strikeZoneHeight |-> 155,
      swingDurationMs |-> 190, swingCooldownMs |-> 380,
      pitchIntervalMs |-> 1200,
      swingWindowZ |-> 38, hitPlaneTolerance |-> 42,
      perfectPciDist |-> 19, goodPciDist |-> 37,
      perfectTiming |-> 11, goodTiming |-> 23 ]

\* part_000:13 (mouse-click variant), the fields classifyHit reads
configFirst ==
    [ hitPlaneTolerance |-> 45,
      perfectPciDist |-> 18, goodPciDist |-> 34,
      perfectTiming |-> 12, goodTiming |-> 24 ]

\* `activeConfig = { ...baseConfig, ...difficultyProfiles[currentDifficulty] }`
ConfigOf(v, d) ==
    IF v = "scoring" THEN Merge(baseConfig, difficultyProfiles[d])
    ELSE IF v = "main1" THEN configMain1
    ELSE config

activeConfig == ConfigOf(variant, currentDifficulty)

\* Literals that differ between the variants.
\*   fixedDt        : physics step, in 1/18000 s
\*   passedEps      : tryResolveContact, "ball already passed the plane" tolerance
\*   pciOuterPct    : tryResolveContact, outer PCI bound as % of goodPciDist
\*   batOuterPct    : tryResolveContact, outer bat bound as % of goodBatDist
\*   autoMissZ      : maybeAutoMiss, distance behind the zone plane
\*   outZ/outX/outFar/outY : shouldResetBall(OutOfPlay)
\*   cameraZ, zoneY : camera.position.z and strike zone centre height
\*   maxSubSteps    : third argument of world.step
literals ==
    [ scoring |->
        [ fixedDt |-> 200, passedEps |-> 60, pciOuterPct |-> 200, batOuterPct |-> 195,
          autoMissZ |-> 72, outZ |-> 1800, outX |-> 2400, outFar |-> 4800, outY |-> -400,
          cameraZ |-> 135, zoneY |-> 114, rDelay |-> 0, initDelay |-> 0, maxSubSteps |-> 4,
          factorBase |-> 82, factorSpread |-> 35 ],
      main2 |->
        [ fixedDt |-> 150, passedEps |-> 35, pciOuterPct |-> 165, batOuterPct |-> 150,
          autoMissZ |-> 28, outZ |-> 1600, outX |-> 2200, outFar |-> 4500, outY |-> -400,
          cameraZ |-> 158, zoneY |-> 134, rDelay |-> 120, initDelay |-> 550, maxSubSteps |-> 5,
          factorBase |-> 78, factorSpread |-> 35 ],
      main1 |->
        [ fixedDt |-> 150, passedEps |-> 28, pciOuterPct |-> 135, batOuterPct |-> 0,
          autoMissZ |-> 26, outZ |-> 1600, outX |-> 2200, outFar |-> 4500, outY |-> -400,
          cameraZ |-> 118, zoneY |-> 135, rDelay |-> 120, initDelay |-> 550, maxSubSteps |-> 5,
          factorBase |-> 77, factorSpread |-> 35 ] ]

\* the variants with a contact window
Variants == {"scoring", "main2"}

Lit == literals[variant]

Pos(x, y, z) == [x |-> x, y |-> y, z |-> z]

\* strikeZone.center
ZoneCenter(v) == Pos(0, literals[v].zoneY, literals[v].cameraZ - ConfigOf(v, "easy").strikeZoneDistance)

strikeZoneCenter == ZoneCenter(variant)

\* spawnPos: part_001:947 (MOUND_DISTANCE = 18.44 * 0.5), main.js:1028
SpawnOf(v) == IF v = "scoring" THEN Pos(0, 152, -922) ELSE Pos(0, 150, -1750)

spawnPos == SpawnOf(variant)

\* deltaTime clamp of animate (0.05 s) and one millisecond, in 1/18000 s
MaxFrameDelta == 900

UnitsPerMs == 18000 \div 1000

Abs(n) == IF n < 0 THEN -n ELSE n

Min(a, b) == IF a < b THEN a ELSE b

Max(a, b) == IF a > b THEN a ELSE b

\* THREE.MathUtils.clamp
Clamp(v, lo, hi) == Max(lo, Min(hi, v))

\* THREE.MathUtils.lerp with the interpolant in percent
Lerp(a, b, pct) == a + ((b - a) * pct) \div 100

\* squared planar / spatial distances (Math.hypot, Vector3.distanceTo, squared)
Hypot2(dx, dy) == dx * dx + dy * dy

Dist2(p, q) == (p.x - q.x) * (p.x - q.x) + (p.y - q.y) * (p.y - q.y) + (p.z - q.z) * (p.z - q.z)

\* d <= t for a distance d given by its square d2
Within(d2, t) == d2 <= t * t

\* d <= t * pct / 100 for a distance d given by its square d2
WithinPct(d2, t, pct) == d2 <= ((t * pct) * (t * pct)) \div 10000

(***************************************************************************)
(* External collaborators: positions the rigid-body world can report and   *)
(* sweet spots the animated bat can have.                                  *)
(***************************************************************************)
\* a pitched ball: lateral offsets and depths it passes through
PitchXs(v) == IF v = "scoring" THEN {0, 300} ELSE {0, 100}

PitchZs(v) == IF v = "scoring" THEN {-100, 50, 70, 100, 1900} ELSE {0, 30, 50, 90, 1700}

\* a pitch that runs along the ground: inside the timing window, and gone
LowPitchZs(v) == IF v = "scoring" THEN {-100, 1900} ELSE {50, 1700}

\* a batted ball: in the air, landed fair (short, run, home run), landed foul, gone
HitPositions(v) ==
    IF v = "scoring"
    THEN { Pos(0, 300, -1000), Pos(0, 12, -1000), Pos(0, 12, -3500), Pos(200, 12, -5000),
           Pos(2300, 12, -4300), Pos(2500, 12, -1000), Pos(0, 12, 50), Pos(0, 300, -5000) }
    ELSE { Pos(0, 300, -1000), Pos(0, 12, -1000), Pos(0, 300, -4600) }

\* getBatSweetSpotWorld(): where the barrel can be during the contact phase,
\* and where it rests while the bat is idle
SweetSpots(v) ==
    IF v = "scoring"
    THEN { Pos(0, 114, -50), Pos(200, 114, -50) }
    ELSE { Pos(0, 134, 50), Pos(50, 134, 50) }

IdleSweetSpot == Pos(100, 150, 200)

BatPoses(swinging) == IF swinging THEN SweetSpots(variant) ELSE {IdleSweetSpot}

GroundY == 12

\* world.step: the states the ball can be in after the accumulator loop ran
\* k steps.  Gravity moves a ball at rest only downwards; a pitched ball
\* moves towards (and past) the plate, at the height of the zone or, when it
\* was launched from the ground, along the ground; a batted ball goes anywhere.
PhysicsOutcomes(v, pos, vel, k) ==
    IF k = 0 THEN { [pos |-> pos, vel |-> vel] }
    ELSE IF vel \in {"zero", "falling"} THEN
        { [pos |-> pos, vel |-> vel], [pos |-> [pos EXCEPT !.y = GroundY], vel |-> "falling"] }
    ELSE IF vel = "pitched" THEN
        { [pos |-> Pos(x, y, z), vel |-> vel] :
            x \in IF pos.z # SpawnOf(v).z THEN {pos.x}
                  ELSE IF pos.y = GroundY THEN {0} ELSE PitchXs(v),
            y \in IF pos.y = GroundY THEN {GroundY} ELSE {ZoneCenter(v).y},
            z \in { zz \in (IF pos.y = GroundY THEN LowPitchZs(v) ELSE PitchZs(v)) : zz > pos.z } }
    ELSE
        { [pos |-> pos, vel |-> vel] } \cup
        { [pos |-> p, vel |-> vel] : p \in HitPositions(v) }

(***************************************************************************)
(* The program state as one record, so that a handler is the composition   *)
(* of the functions it calls.                                              *)
(***************************************************************************)
State ==
    [ now |-> 0, sinceFrame |-> sinceFrame, accumulator |-> accumulator,
      isSwinging |-> isSwinging, swingStartMs |-> swingStartMs,
      nextSwingAllowedMs |-> nextSwingAllowedMs,
      swingUsedThisPitch |-> swingUsedThisPitch,
      swingContactResolved |-> swingContactResolved,
      swingMissQueued |-> swingMissQueued,
      swingForwardDone |-> swingForwardDone,
      nextPitchReadyAt |-> nextPitchReadyAt, pitchInFlight |-> pitchInFlight,
      ballWasHit |-> ballWasHit, ballLandingTracked |-> ballLandingTracked,
      ballPos |-> ballPos, ballVel |-> ballVel, ballMesh |-> ballMesh,
      pciOffsetX |-> pciOffsetX, pciOffsetY |-> pciOffsetY,
      gameStats |-> gameStats, pitchTimer |-> pitchTimer,
      pitchLog |-> pitchLog, doneLog |-> doneLog, swingLog |-> swingLog,
      frameLog |-> frameLog ]

Commit(s) ==
    /\ sinceFrame' = s.sinceFrame
    /\ accumulator' = s.accumulator
    /\ isSwinging' = s.isSwinging
    /\ swingStartMs' = s.swingStartMs
    /\ nextSwingAllowedMs' = s.nextSwingAllowedMs
    /\ swingUsedThisPitch' = s.swingUsedThisPitch
    /\ swingContactResolved' = s.swingContactResolved
    /\ swingMissQueued' = s.swingMissQueued
    /\ swingForwardDone' = s.swingForwardDone
    /\ nextPitchReadyAt' = s.nextPitchReadyAt
    /\ pitchInFlight' = s.pitchInFlight
    /\ ballWasHit' = s.ballWasHit
    /\ ballLandingTracked' = s.ballLandingTracked
    /\ ballPos' = s.ballPos
    /\ ballVel' = s.ballVel
    /\ ballMesh' = s.ballMesh
    /\ pciOffsetX' = s.pciOffsetX
    /\ pciOffsetY' = s.pciOffsetY
    /\ gameStats' = s.gameStats
    /\ pitchTimer' = s.pitchTimer
    /\ pitchLog' = s.pitchLog
    /\ doneLog' = s.doneLog
    /\ swingLog' = s.swingLog
    /\ frameLog' = s.frameLog

\* one statement after another: f applied to the state the statements before
\* it have produced
Then(s, f(_)) == CHOOSE n \in { f(x) : x \in {s} } : TRUE

\* the handler's outcomes become the next state
Step(outcomes) == \E n \in outcomes : Commit(n)

\* observation records
Flags(s) == << s.swingContactResolved, s.swingMissQueued, s.ballWasHit >>

NoPoll == [polled |-> FALSE, resolved |-> FALSE, timingDist |-> 0, ballZ |-> 0,
           pciDist2 |-> 0, batDist2 |-> 0, meshIsBall |-> TRUE, quality |-> "NONE",
           flags |-> << FALSE, FALSE, FALSE >>, timingScale |-> 0, impulseFactor |-> 0]

EmptyPitchLog == [impulses |-> 0, landings |-> 0, swings |-> 0, launches |-> 0, age |-> 0]

NoDoneLog == [valid |-> FALSE, hit |-> FALSE, impulses |-> 0, landings |-> 0, launches |-> 0]

NoSwingLog == [contact |-> FALSE, reset |-> FALSE, near |-> FALSE, age |-> 0, cooldown |-> 0,
               evaluations |-> 0, polled |-> FALSE, phase |-> "idle"]

\* the swing has ended: what stays known of it is the time since its trigger
\* was accepted (age, told apart up to cooldown) and the swingCooldownMs in
\* force at that moment
EndedSwingLog(l) == [NoSwingLog EXCEPT !.age = l.age, !.cooldown = l.cooldown]

NoHitDir == [mapper |-> "none", x |-> 0, y |-> 0, z |-> 0, pciX |-> 0, pciY |-> 0]

NoPitch ==
    [ pitcher |-> "none", pitchType |-> "none", target |-> Pos(0, 0, 0),
      toTarget |-> Pos(0, 0, 0), speed |-> 0, breakX |-> 0, breakY |-> 0, vzLen |-> 0 ]

FreshLog ==
    [ ticks |-> 0, polls |-> 0, phase |-> "idle", poll |-> NoPoll,
      impulses |-> 0, miss |-> 0, autoMiss |-> 0, outs |-> 0, landing |-> "none",
      resets |-> 0, launched |-> FALSE, accepted |-> FALSE, finished |-> FALSE,
      outside |-> FALSE, hitDir |-> NoHitDir, pitch |-> NoPitch,
      evaluations |-> 0, result |-> "none" ]

Log(s, field, value) == [s EXCEPT !.frameLog = [s.frameLog EXCEPT ![field] = value]]

(***************************************************************************)
(* PITCHING                                                                *)
(***************************************************************************)
\* fault: the reset leaves the pitch's swing spent
queueBallAtMoundKeepsSwingUsed(s) ==
    [ s EXCEPT
        !.ballPos = spawnPos,
        !.ballVel = "zero",
        !.swingContactResolved = FALSE,
        !.swingMissQueued = FALSE,
        !.pitchInFlight = FALSE,
        !.ballWasHit = FALSE,
        !.ballLandingTracked = FALSE,
        !.doneLog = [valid |-> TRUE, hit |-> s.ballWasHit,
                     impulses |-> s.pitchLog.impulses, landings |-> s.pitchLog.landings,
                     launches |-> s.pitchLog.launches],
        !.pitchLog = EmptyPitchLog,
        !.swingLog = [s.swingLog EXCEPT !.reset = @ \/ s.isSwinging],
        !.frameLog = [s.frameLog EXCEPT !.resets = @ + 1] ]

\* part_001:980 queueBallAtMound
queueBallAtMound(s) ==
    [ s EXCEPT
        !.ballPos = spawnPos,
        !.ballVel = "zero",
        !.swingUsedThisPitch = FALSE,
        !.swingContactResolved = FALSE,
        !.swingMissQueued = FALSE,
        !.pitchInFlight = FALSE,
        !.ballWasHit = FALSE,
        !.ballLandingTracked = FALSE,
        !.doneLog = [valid |-> TRUE, hit |-> s.ballWasHit,
                     impulses |-> s.pitchLog.impulses, landings |-> s.pitchLog.landings,
                     launches |-> s.pitchLog.launches],
        !.pitchLog = EmptyPitchLog,
        !.swingLog = [s.swingLog EXCEPT !.reset = @ \/ s.isSwinging],
        !.frameLog = [s.frameLog EXCEPT !.resets = @ + 1] ]

\* part_001:994 launchPitch
launchPitch(s) ==
    [ s EXCEPT
        !.ballVel = "pitched",
        !.pitchInFlight = TRUE,
        !.pitchLog = [s.pitchLog EXCEPT !.launches = @ + 1, !.age = 0],
        !.frameLog = [s.frameLog EXCEPT !.launched = TRUE] ]

\* part_001:1000 scheduleNextPitch under configuration cfg, r the
\* Math.random() draw in percent
scheduleNextPitchWith(s, r, cfg) ==
    LET q == queueBallAtMound(s)
        delay == Lerp(cfg.postSwingDelayMinMs, cfg.postSwingDelayMaxMs, r)
    IN  [ q EXCEPT !.nextPitchReadyAt = s.now + delay ]

scheduleNextPitch(s, r) == scheduleNextPitchWith(s, r, activeConfig)

\* no pitch timer has been set
NoTimer == [pending |-> FALSE, due |-> 0, delay |-> 0, superseded |-> {}]

\* main.js:1062 clearTimeout(pitchTimer): the timer the variable names leaves
\* the browser's queue (nothing happens when it has fired already)
clearTimeout(t) == [t EXCEPT !.pending = FALSE]

\* main.js:1074 pitchTimer = setTimeout(.., delay): the variable names the new
\* timer; a timer it named before stays in the queue when it is still pending
setTimeout(t, now, delay) ==
    [ pending |-> TRUE, due |-> now + delay, delay |-> delay,
      superseded |-> t.superseded \cup (IF t.pending THEN {t.due} ELSE {}) ]

\* fault: the previous timer is not cleared
resetAndPitchNoClear(s, delay) ==
    [ s EXCEPT
        !.ballPos = spawnPos,
        !.ballVel = "zero",
        !.swingUsedThisPitch = FALSE,
        !.ballWasHit = FALSE,
        !.swingContactResolved = FALSE,
        !.swingMissQueued = FALSE,
        !.pitchTimer = setTimeout(s.pitchTimer, s.now, delay),
        !.doneLog = [valid |-> TRUE, hit |-> s.ballWasHit,
                     impulses |-> s.pitchLog.impulses, landings |-> s.pitchLog.landings,
                     launches |-> s.pitchLog.launches],
        !.pitchLog = EmptyPitchLog,
        !.swingLog = [s.swingLog EXCEPT !.reset = @ \/ s.isSwinging],
        !.frameLog = [s.frameLog EXCEPT !.resets = @ + 1] ]

\* main.js:1061 resetAndPitch
resetAndPitch(s, delay) ==
    [ s EXCEPT
        !.ballPos = spawnPos,
        !.ballVel = "zero",
        !.swingUsedThisPitch = FALSE,
        !.ballWasHit = FALSE,
        !.swingContactResolved = FALSE,
        !.swingMissQueued = FALSE,
        !.pitchTimer = setTimeout(clearTimeout(s.pitchTimer), s.now, delay),
        !.doneLog = [valid |-> TRUE, hit |-> s.ballWasHit,
                     impulses |-> s.pitchLog.impulses, landings |-> s.pitchLog.landings,
                     launches |-> s.pitchLog.launches],
        !.pitchLog = EmptyPitchLog,
        !.swingLog = [s.swingLog EXCEPT !.reset = @ \/ s.isSwinging],
        !.frameLog = [s.frameLog EXCEPT !.resets = @ + 1] ]

\* fault: an out is counted twice
registerOutTwice(s) ==
    [ s EXCEPT !.gameStats = [s.gameStats EXCEPT !.outs = @ + 2],
               !.frameLog = [s.frameLog EXCEPT !.outs = @ + 1] ]

\* part_001:929 registerOut
registerOut(s) ==
    [ s EXCEPT !.gameStats = [s.gameStats EXCEPT !.outs = @ + 1],
               !.frameLog = [s.frameLog EXCEPT !.outs = @ + 1] ]

(***************************************************************************)
(* HIT DETECTION + SCORING                                                 *)
(***************************************************************************)
\* part_001:1073 pciBallDistance (squared)
pciBallDistance(s) ==
    Hypot2(s.ballPos.x - (strikeZoneCenter.x + s.pciOffsetX),
           s.ballPos.y - (strikeZoneCenter.y + s.pciOffsetY))

\* fault: the foul lines are not looked at, only the side of the plate
isFairBallAnyAngle(x, z) == z <= 0

\* part_001:1079 isFairBall
isFairBall(x, z) ==
    IF z > 0 THEN FALSE ELSE 100 * Abs(x) <= 105 * Abs(z)

\* part_000:232 classifyHit; ballAhead = ballBody.position.z - strikeZone.center.z
classifyHit(pciDist2, timingDist, ballAhead) ==
    IF timingDist > configFirst.hitPlaneTolerance \/ ballAhead > 35 THEN "MISS"
    ELSE IF Within(pciDist2, configFirst.perfectPciDist) /\ timingDist <= configFirst.perfectTiming
    THEN "PERFECT"
    ELSE IF Within(pciDist2, configFirst.goodPciDist) /\ timingDist <= configFirst.goodTiming
    THEN "GOOD"
    ELSE "WEAK"

\* fault: one precise measure is enough for the better grade
classifyContactAnyMeasure(pciDist2, timingDist, batDist2) ==
    LET perfect == \/ Within(pciDist2, activeConfig.perfectPciDist)
                   \/ timingDist <= activeConfig.perfectTiming
                   \/ Within(batDist2, activeConfig.perfectBatDist)
        good    == \/ Within(pciDist2, activeConfig.goodPciDist)
                   \/ timingDist <= activeConfig.goodTiming
                   \/ Within(batDist2, activeConfig.goodBatDist)
    IN  IF perfect THEN "PERFECT" ELSE IF good THEN "GOOD" ELSE "WEAK"

\* part_001:1084 classifyContact; pciDist2 and batDist2 are squared distances
classifyContact(pciDist2, timingDist, batDist2) ==
    LET perfect == /\ Within(pciDist2, activeConfig.perfectPciDist)
                   /\ timingDist <= activeConfig.perfectTiming
                   /\ Within(batDist2, activeConfig.perfectBatDist)
        good    == /\ Within(pciDist2, activeConfig.goodPciDist)
                   /\ timingDist <= activeConfig.goodTiming
                   /\ Within(batDist2, activeConfig.goodBatDist)
    IN  IF perfect THEN "PERFECT" ELSE IF good THEN "GOOD" ELSE "WEAK"

\* fault: the timing precision is measured against the window that gates contact
timingScaleOverGate(timingDist, cfg) ==
    cfg.swingWindowZ - Clamp(timingDist, 0, cfg.swingWindowZ)

\* part_001:1121, main.js:1167: timingScale = 1 - clamp(timingDist /
\* hitPlaneTolerance, 0, 1), as a multiple of 1 / hitPlaneTolerance
timingScale(timingDist, cfg) ==
    cfg.hitPlaneTolerance - Clamp(timingDist, 0, cfg.hitPlaneTolerance)

\* part_001:1133, main.js:1179: the factor 0.82 + timingScale * 0.35 the
\* impulse is scaled by, as a multiple of 1 / (100 * hitPlaneTolerance)
impulseFactor(timingDist, cfg) ==
    Lit.factorBase * cfg.hitPlaneTolerance + Lit.factorSpread * timingScale(timingDist, cfg)

\* part_001:1100 tryResolveContact, sweetSpot = getBatSweetSpotWorld();
\* gated says which of the early returns are in force
resolveContact(s, sweetSpot, gated) ==
    LET timingDist == Abs(s.ballPos.z - strikeZoneCenter.z)
        pciDist2   == pciBallDistance(s)
        batDist2   == Dist2(sweetSpot, s.ballMesh)
        inTiming   == ~(\/ timingDist > activeConfig.swingWindowZ
                        \/ s.ballPos.z > strikeZoneCenter.z + Lit.passedEps)
        seen       == [polled |-> TRUE, resolved |-> FALSE, timingDist |-> timingDist,
                       ballZ |-> s.ballPos.z, pciDist2 |-> pciDist2, batDist2 |-> batDist2,
                       meshIsBall |-> (s.ballMesh = s.ballPos), quality |-> "NONE",
                       flags |-> Flags(s), timingScale |-> 0, impulseFactor |-> 0]
        p          == [s EXCEPT !.frameLog = [s.frameLog EXCEPT !.polls = @ + 1, !.poll = seen],
                                !.swingLog = [s.swingLog EXCEPT !.near = @ \/ inTiming,
                                                                !.polled = TRUE]]
    IN  IF gated.timing /\ ~inTiming THEN p
        ELSE IF gated.pci /\ ~WithinPct(pciDist2, activeConfig.goodPciDist, Lit.pciOuterPct) THEN p
        ELSE IF gated.bat /\ ~WithinPct(batDist2, activeConfig.goodBatDist, Lit.batOuterPct) THEN p
        ELSE [ p EXCEPT
                 !.swingContactResolved = TRUE,
                 !.swingMissQueued = FALSE,
                 !.ballWasHit = TRUE,
                 !.ballVel = "hit",
                 !.pitchLog = [s.pitchLog EXCEPT !.impulses = @ + 1],
                 !.swingLog = [p.swingLog EXCEPT !.contact = TRUE],
                 !.frameLog = [p.frameLog EXCEPT
                                 !.impulses = @ + 1,
                                 !.poll = [seen EXCEPT
                                             !.resolved = TRUE,
                                             !.flags = << TRUE, FALSE, TRUE >>,
                                             !.quality = classifyContact(pciDist2, timingDist, batDist2),
                                             !.timingScale = timingScale(timingDist, activeConfig),
                                             !.impulseFactor = impulseFactor(timingDist, activeConfig)]] ]

\* fault: the outer bat-distance bound is not checked
tryResolveContactNoBatGate(s, sweetSpot) ==
    resolveContact(s, sweetSpot, [timing |-> TRUE, pci |-> TRUE, bat |-> FALSE])

tryResolveContact(s, sweetSpot) ==
    resolveContact(s, sweetSpot, [timing |-> TRUE, pci |-> TRUE, bat |-> TRUE])

\* fault: a ball beyond the fence counts as an ordinary run
handleBallLandingNoFence(s) ==
    IF ~s.ballWasHit \/ s.ballLandingTracked THEN s
    ELSE IF s.ballPos.y > 13 THEN s
    ELSE
        LET x == s.ballPos.x
            z == s.ballPos.z
            fair == isFairBall(x, z)
            distance2 == Hypot2(x, z)
            g == s.gameStats
            t == [ s EXCEPT !.ballLandingTracked = TRUE,
                            !.pitchLog = [s.pitchLog EXCEPT !.landings = @ + 1] ]
        IN  IF ~fair THEN
                Log([t EXCEPT !.gameStats = [g EXCEPT !.fouls = @ + 1]], "landing", "foul")
            ELSE
                Log([t EXCEPT !.gameStats = [g EXCEPT !.hits = @ + 1,
                                                      !.score = @ + (IF ~Within(distance2, 3000) THEN 1 ELSE 0)]],
                    "landing", IF ~Within(distance2, 3000) THEN "run" ELSE "fair")

\* part_001:1145 handleBallLanding
handleBallLanding(s) ==
    IF ~s.ballWasHit \/ s.ballLandingTracked THEN s
    ELSE IF s.ballPos.y > 13 THEN s
    ELSE
        LET x == s.ballPos.x
            z == s.ballPos.z
            fair == isFairBall(x, z)
            distance2 == Hypot2(x, z)
            g == s.gameStats
            t == [ s EXCEPT !.ballLandingTracked = TRUE,
                            !.pitchLog = [s.pitchLog EXCEPT !.landings = @ + 1] ]
        IN  IF ~fair THEN
                Log([t EXCEPT !.gameStats = [g EXCEPT !.fouls = @ + 1]], "landing", "foul")
            ELSE IF ~Within(distance2, 4800) THEN
                Log([t EXCEPT !.gameStats = [g EXCEPT !.hits = @ + 1,
                                                      !.homeruns = @ + 1,
                                                      !.score = @ + 1]], "landing", "homerun")
            ELSE
                Log([t EXCEPT !.gameStats = [g EXCEPT !.hits = @ + 1,
                                                      !.score = @ + (IF ~Within(distance2, 3000) THEN 1 ELSE 0)]],
                    "landing", IF ~Within(distance2, 3000) THEN "run" ELSE "fair")

\* part_001:1173 maybeAutoMiss
maybeAutoMiss(s, r) ==
    IF ~s.swingUsedThisPitch /\ s.pitchInFlight
       /\ s.ballPos.z > strikeZoneCenter.z + Lit.autoMissZ
    THEN scheduleNextPitch(
             registerOut(Log([s EXCEPT !.swingUsedThisPitch = TRUE], "autoMiss", 1)), r)
    ELSE s

\* main.js:1192 maybeAutoMiss
maybeAutoMissMain(s) ==
    IF ~s.swingUsedThisPitch /\ ~s.ballWasHit
       /\ s.ballPos.z > strikeZoneCenter.z + Lit.autoMissZ
    THEN Log([s EXCEPT !.swingUsedThisPitch = TRUE], "autoMiss", 1)
    ELSE s

\* part_001:1185 shouldResetBallOutOfPlay, main.js:1202 shouldResetBall
shouldResetBallOutOfPlay(s) ==
    \/ s.ballPos.z > Lit.outZ
    \/ Abs(s.ballPos.x) > Lit.outX
    \/ Abs(s.ballPos.z) > Lit.outFar
    \/ s.ballPos.y < Lit.outY

\* the phase updateBatSwing has computed in this frame, kept for the frame and
\* for the swing
SeePhase(s, phase) ==
    [ s EXCEPT !.frameLog = [@ EXCEPT !.phase = phase],
               !.swingLog = [@ EXCEPT !.phase = phase] ]

(***************************************************************************)
(* SWING ANIMATION                                                         *)
(***************************************************************************)
\* elapsed swing time against the normalized phase t = clamp(elapsed / duration, 0, 1)
InContactPhase(elapsed, cfg) ==
    /\ elapsed * 100 >= cfg.contactWindowStart * cfg.swingDurationMs
    /\ elapsed * 100 <= cfg.contactWindowEnd * cfg.swingDurationMs

SwingOver(elapsed, cfg) == elapsed >= cfg.swingDurationMs

PhaseOf(elapsed, cfg) ==
    IF SwingOver(elapsed, cfg) THEN "done"
    ELSE IF InContactPhase(elapsed, cfg) THEN "contact"
    ELSE IF elapsed * 100 < cfg.contactWindowStart * cfg.swingDurationMs THEN "loading"
    ELSE "follow"

\* fault: the resolver is polled in every phase of the swing
pollContactAnyPhase(s, nowMs, sweetSpot) ==
    IF ~s.swingContactResolved THEN tryResolveContact(s, sweetSpot) ELSE s

\* fault: the resolver is polled again when the first poll did not resolve
pollContactTwice(s, nowMs, sweetSpot) ==
    IF InContactPhase(nowMs - s.swingStartMs, activeConfig) /\ ~s.swingContactResolved
    THEN LET once == tryResolveContact(s, sweetSpot)
         IN  IF once.swingContactResolved THEN once ELSE tryResolveContact(once, sweetSpot)
    ELSE s

\* fault: the resolver is polled although contact is already latched
pollContactUnlatched(s, nowMs, sweetSpot) ==
    IF InContactPhase(nowMs - s.swingStartMs, activeConfig)
    THEN tryResolveContact(s, sweetSpot)
    ELSE s

\* the polling step of updateBatSwing (part_001:633-636, main.js:859-862)
pollContact(s, nowMs, sweetSpot) ==
    IF InContactPhase(nowMs - s.swingStartMs, activeConfig) /\ ~s.swingContactResolved
    THEN tryResolveContact(s, sweetSpot)
    ELSE s

\* fault: the miss at the end of the swing does not look at swingMissQueued
updateBatSwingNoQueue(s, nowMs, sweetSpot, r) ==
    IF ~s.isSwinging THEN s
    ELSE
        LET elapsed == nowMs - s.swingStartMs
            p == pollContact(SeePhase(s, PhaseOf(elapsed, activeConfig)), nowMs, sweetSpot)
        IN  IF SwingOver(elapsed, activeConfig)
            THEN LET e == Log([p EXCEPT !.isSwinging = FALSE, !.swingLog = EndedSwingLog(p.swingLog)],
                              "finished", TRUE)
                     m == IF ~e.swingContactResolved
                          THEN registerOut(Log(e, "miss", 1))
                          ELSE e
                 IN  scheduleNextPitch(m, r)
            ELSE p

\* part_001:594 updateBatSwing
updateBatSwing(s, nowMs, sweetSpot, r) ==
    IF ~s.isSwinging THEN s
    ELSE
        LET elapsed == nowMs - s.swingStartMs
            p == pollContact(SeePhase(s, PhaseOf(elapsed, activeConfig)), nowMs, sweetSpot)
        IN  IF SwingOver(elapsed, activeConfig)
            THEN LET e == Log([p EXCEPT !.isSwinging = FALSE, !.swingLog = EndedSwingLog(p.swingLog)],
                              "finished", TRUE)
                     m == IF ~e.swingContactResolved /\ e.swingMissQueued
                          THEN registerOut(Log(e, "miss", 1))
                          ELSE e
                 IN  scheduleNextPitch(m, r)
            ELSE p

\* main.js:833 updateBatSwing
updateBatSwingMain(s, nowMs, sweetSpot) ==
    IF ~s.isSwinging THEN s
    ELSE
        LET elapsed == nowMs - s.swingStartMs
            p == pollContact(SeePhase(s, PhaseOf(elapsed, activeConfig)), nowMs, sweetSpot)
        IN  IF SwingOver(elapsed, activeConfig)
            THEN LET e == Log([p EXCEPT !.isSwinging = FALSE, !.swingLog = EndedSwingLog(p.swingLog)],
                              "finished", TRUE)
                 IN  IF ~e.swingContactResolved /\ e.swingMissQueued
                     THEN Log(e, "miss", 1)
                     ELSE e
            ELSE p

(***************************************************************************)
(* FIXED-STEP MAIN LOOP                                                    *)
(***************************************************************************)
\* fault: the frame delta is not clamped
DeltaTimeUnclamped(s) == s.sinceFrame * UnitsPerMs

\* deltaTime = Math.min(clock.getDelta(), 0.05), in 1/18000 s
DeltaTime(s) == Min(s.sinceFrame * UnitsPerMs, MaxFrameDelta)

\* number of iterations of `while (accumulator >= fixedDt)`
TicksOf(acc) == acc \div Lit.fixedDt

\* the accumulator loop: the ticks run and the world's outcome w
stepWorld(s, w) ==
    LET acc == s.accumulator + DeltaTime(s)
    IN  [ s EXCEPT !.accumulator = acc % Lit.fixedDt,
                   !.sinceFrame = 0,
                   !.ballPos = w.pos,
                   !.ballVel = w.vel,
                   !.frameLog = [FreshLog EXCEPT !.ticks = TicksOf(acc)] ]

WorldOutcomes(s) ==
    PhysicsOutcomes(variant, s.ballPos, s.ballVel, TicksOf(s.accumulator + DeltaTime(s)))

\* fault: the frame launches without looking at nextPitchReadyAt
maybeLaunchAtOnce(s) ==
    IF ~s.pitchInFlight THEN launchPitch(s) ELSE s

\* fault: the frame never launches
maybeLaunchNever(s) == s

\* part_001:1226-1228
maybeLaunch(s) ==
    IF ~s.pitchInFlight /\ s.now >= s.nextPitchReadyAt THEN launchPitch(s) ELSE s

\* part_001:1234-1236
maybeResetOutOfPlay(s, r) ==
    IF s.pitchInFlight /\ shouldResetBallOutOfPlay(s)
    THEN scheduleNextPitch(Log(s, "outside", TRUE), r)
    ELSE s

\* main.js:1241
maybeResetMain(s) ==
    IF shouldResetBallOutOfPlay(s)
    THEN resetAndPitch(Log(s, "outside", TRUE), activeConfig.pitchIntervalMs)
    ELSE s

copyMesh(s) == [s EXCEPT !.ballMesh = s.ballPos]

\* part_001:1214 animate
animate(s, w, sweetSpot, r) ==
    Then(Then(Then(Then(Then(Then(stepWorld(s, w),
        LAMBDA s1 : maybeLaunch(s1)),
        LAMBDA s2 : updateBatSwing(s2, s2.now, sweetSpot, r)),
        LAMBDA s3 : handleBallLanding(s3)),
        LAMBDA s4 : maybeAutoMiss(s4, r)),
        LAMBDA s5 : maybeResetOutOfPlay(s5, r)),
        LAMBDA s6 : copyMesh(s6))

\* main.js:1226 animate
animateMain(s, w, sweetSpot) ==
    Then(Then(Then(Then(stepWorld(s, w),
        LAMBDA s1 : updateBatSwingMain(s1, s1.now, sweetSpot)),
        LAMBDA s2 : maybeAutoMissMain(s2)),
        LAMBDA s3 : maybeResetMain(s3)),
        LAMBDA s4 : copyMesh(s4))

(***************************************************************************)
(* INPUT                                                                   *)
(***************************************************************************)
\* where the cursor ray meets the PCI plane, relative to the zone centre (cm)
MouseHits == { <<0, 0>>, <<100, 100>> }

\* e.movementX / e.movementY scaled by pciSensitivity (cm)
MouseMoves == { <<200, 200>>, <<-200, -200>> }

HalfW == activeConfig.strikeZoneWidth \div 2

HalfH == activeConfig.strikeZoneHeight \div 2

\* fault: the cursor position is taken as it is
mousemoveNoClamp(s, hit) ==
    [ s EXCEPT !.pciOffsetX = hit[1],
               !.pciOffsetY = hit[2],
               !.frameLog = FreshLog ]

\* part_001:1011 mousemove (cursor-anchored PCI)
mousemove(s, hit) ==
    [ s EXCEPT !.pciOffsetX = Clamp(hit[1], -HalfW, HalfW),
               !.pciOffsetY = Clamp(hit[2], -HalfH, HalfH),
               !.frameLog = FreshLog ]

\* main.js:1085 mousemove (relative PCI)
\* fault: the accumulated mouse movement is taken as it is
mousemoveMainNoClamp(s, move) ==
    [ s EXCEPT !.pciOffsetX = s.pciOffsetX + move[1],
               !.pciOffsetY = s.pciOffsetY - move[2],
               !.frameLog = FreshLog ]

mousemoveMain(s, move) ==
    [ s EXCEPT !.pciOffsetX = Clamp(s.pciOffsetX + move[1], -HalfW, HalfW),
               !.pciOffsetY = Clamp(s.pciOffsetY - move[2], -HalfH, HalfH),
               !.frameLog = FreshLog ]

\* fault: R also ends the swing in progress
keydownRAbortsSwing(s, r) ==
    LET z == [ s EXCEPT !.pciOffsetX = 0, !.pciOffsetY = 0, !.isSwinging = FALSE,
                        !.frameLog = FreshLog ]
    IN  IF variant = "scoring" THEN scheduleNextPitch(z, r) ELSE resetAndPitch(z, Lit.rDelay)

\* fault: R leaves the PCI where it is
keydownRKeepsPci(s, r) ==
    LET z == [ s EXCEPT !.frameLog = FreshLog ]
    IN  IF variant = "scoring" THEN scheduleNextPitch(z, r) ELSE resetAndPitch(z, Lit.rDelay)

\* fault: R also ends the swing cooldown
keydownRClearsCooldown(s, r) ==
    LET z == [ s EXCEPT !.pciOffsetX = 0, !.pciOffsetY = 0, !.nextSwingAllowedMs = s.now,
                        !.frameLog = FreshLog ]
    IN  IF variant = "scoring" THEN scheduleNextPitch(z, r) ELSE resetAndPitch(z, Lit.rDelay)

\* part_001:1034-1040, main.js:1099-1105: the R branch of keydown
keydownR(s, r) ==
    LET z == [ s EXCEPT !.pciOffsetX = 0, !.pciOffsetY = 0, !.frameLog = FreshLog ]
    IN  IF variant = "scoring" THEN scheduleNextPitch(z, r) ELSE resetAndPitch(z, Lit.rDelay)

\* fault: the cooldown is not part of the guard
SwingGuardIgnoresCooldown(s) ==
    \/ s.isSwinging
    \/ s.swingUsedThisPitch
    \/ (variant = "scoring" /\ ~s.pitchInFlight)

\* fault: swingUsedThisPitch is not part of the guard
SwingGuardIgnoresUsed(s) ==
    \/ s.now < s.nextSwingAllowedMs
    \/ s.isSwinging
    \/ (variant = "scoring" /\ ~s.pitchInFlight)

\* the guard of the swing trigger: part_001:1060, main.js:1112
SwingGuardFails(s) ==
    \/ s.now < s.nextSwingAllowedMs
    \/ s.isSwinging
    \/ s.swingUsedThisPitch
    \/ (variant = "scoring" /\ ~s.pitchInFlight)

\* fault: the next swing is allowed as soon as the swing animation is over
keydownSwingShortCooldown(s) ==
    LET k == [ s EXCEPT !.frameLog = FreshLog ]
    IN  IF SwingGuardFails(s) THEN k
        ELSE [ k EXCEPT
                 !.isSwinging = TRUE,
                 !.swingStartMs = s.now,
                 !.nextSwingAllowedMs = s.now + activeConfig.swingDurationMs,
                 !.swingUsedThisPitch = TRUE,
                 !.swingContactResolved = FALSE,
                 !.swingMissQueued = TRUE,
                 !.pitchLog = [s.pitchLog EXCEPT !.swings = @ + 1],
                 !.swingLog = [NoSwingLog EXCEPT !.cooldown = activeConfig.swingCooldownMs],
                 !.frameLog = [FreshLog EXCEPT !.accepted = TRUE] ]

\* part_001:1055-1067 (Space), main.js:1107-1119 (Z): the swing branch of keydown
keydownSwing(s) ==
    LET k == [ s EXCEPT !.frameLog = FreshLog ]
    IN  IF SwingGuardFails(s) THEN k
        ELSE [ k EXCEPT
                 !.isSwinging = TRUE,
                 !.swingStartMs = s.now,
                 !.nextSwingAllowedMs = s.now + activeConfig.swingCooldownMs,
                 !.swingUsedThisPitch = TRUE,
                 !.swingContactResolved = FALSE,
                 !.swingMissQueued = TRUE,
                 !.pitchLog = [s.pitchLog EXCEPT !.swings = @ + 1],
                 !.swingLog = [NoSwingLog EXCEPT !.cooldown = activeConfig.swingCooldownMs],
                 !.frameLog = [FreshLog EXCEPT !.accepted = TRUE] ]

\* part_001:519 applyStrikeZoneAndPciConfig under configuration cfg: the zone
\* takes the configured size and the PCI offset is clamped into it
applyStrikeZoneAndPciConfig(s, cfg) ==
    [ s EXCEPT !.pciOffsetX = Clamp(@, -(cfg.strikeZoneWidth \div 2), cfg.strikeZoneWidth \div 2),
               !.pciOffsetY = Clamp(@, -(cfg.strikeZoneHeight \div 2), cfg.strikeZoneHeight \div 2) ]

\* part_001:910-914 the difficulty selector's change handler; setDifficulty
\* (part_001:110) makes cfg the new activeConfig and applies it
difficultyChange(s, r, cfg) ==
    scheduleNextPitchWith(
        applyStrikeZoneAndPciConfig([s EXCEPT !.frameLog = FreshLog], cfg), r, cfg)

\* part_001:1247 the resize handler
resize(s) ==
    applyStrikeZoneAndPciConfig([s EXCEPT !.frameLog = FreshLog], activeConfig)

\* main.js:1074-1077 the setTimeout callback of resetAndPitch, run for the
\* timer pitchTimer names (named) or for another pending one due at d
pitchTimerCallback(s, named, d) ==
    [ s EXCEPT !.ballVel = "pitched",
               !.pitchTimer = IF named THEN [s.pitchTimer EXCEPT !.pending = FALSE]
                              ELSE [s.pitchTimer EXCEPT !.superseded = @ \ {d}],
               !.pitchLog = [s.pitchLog EXCEPT !.launches = @ + 1, !.age = 0],
               !.frameLog = [FreshLog EXCEPT !.launched = TRUE] ]

(***************************************************************************)
(* The state machine                                                       *)
(***************************************************************************)
\* the module-level initial values, without the difficulty
Booted ==
    /\ sinceFrame = 0
    /\ accumulator = 0
    /\ isSwinging = FALSE
    /\ swingStartMs = 0
    /\ nextSwingAllowedMs = 0
    /\ swingUsedThisPitch = FALSE
    /\ swingContactResolved = FALSE
    /\ swingMissQueued = FALSE
    /\ swingForwardDone = FALSE
    /\ pitchInFlight = FALSE
    /\ ballWasHit = FALSE
    /\ ballLandingTracked = FALSE
    /\ ballPos = SpawnOf(variant)
    /\ ballVel = "zero"
    /\ ballMesh = Pos(0, 0, 0)
    /\ pciOffsetX = 0
    /\ pciOffsetY = 0
    /\ gameStats = [score |-> 0, hits |-> 0, homeruns |-> 0, fouls |-> 0, outs |-> 0]
    /\ \E r \in RandomDraws :
          nextPitchReadyAt =
            IF variant = "scoring"
            THEN Lerp(ConfigOf(variant, "easy").postSwingDelayMinMs,
                      ConfigOf(variant, "easy").postSwingDelayMaxMs, r)
            ELSE 0
    /\ pitchTimer = IF variant = "scoring" THEN NoTimer ELSE setTimeout(NoTimer, 0, Lit.initDelay)
    /\ pitchLog = EmptyPitchLog
    /\ doneLog = NoDoneLog
    /\ swingLog = NoSwingLog
    /\ frameLog = FreshLog
    /\ lastHandler = "init"
    /\ worldClock = [accumulator |-> 0, steps |-> 0]

Boot ==
    /\ variant \in Variants
    /\ Booted

Init ==
    /\ currentDifficulty = "easy"
    /\ Boot

\* the furthest back a swing start is told apart: the longest swingDurationMs
SwingFloor ==
    LET ds == { ConfigOf(v, d).swingDurationMs : v \in Variants, d \in Difficulties }
    IN  CHOOSE m \in ds : \A x \in ds : x <= m

\* pitchLog.age is the time since the reset while its pitch waits to be
\* launched, told apart up to the delay that has to pass before the launch:
\* postSwingDelayMinMs, or the delay of the pending timer
ResetAgeCap(s) ==
    IF variant = "scoring" THEN activeConfig.postSwingDelayMinMs ELSE s.pitchTimer.delay

\* the session is followed while fewer than MaxScored pitches are scored, and
\* then until the swing in progress has ended
Playing == gameStats.outs + gameStats.fouls + gameStats.hits < MaxScored

\* wall-clock time d passes between two events
elapse(s, d) ==
    [ s EXCEPT !.sinceFrame = Min(@ + d, MaxFrameDelta \div UnitsPerMs),
               !.swingStartMs = Max(@ - d, -SwingFloor),
               !.nextSwingAllowedMs = Max(@ - d, 0),
               !.nextPitchReadyAt = Max(@ - d, 0),
               !.pitchTimer = [@ EXCEPT !.due = Max(@ - d, 0),
                                        !.superseded = { Max(x - d, 0) : x \in @ }],
               !.swingLog = [@ EXCEPT !.age = Min(@ + d, s.swingLog.cooldown)],
               !.pitchLog = [@ EXCEPT !.age = IF s.pitchLog.launches = 0
                                                THEN Min(@ + d, ResetAgeCap(s)) ELSE @],
               !.frameLog = FreshLog ]

\* something with a deadline shorter than a second is in progress
Busy ==
    \/ variant = "main2"
    \/ isSwinging
    \/ nextSwingAllowedMs > 0
    \/ ballVel \in {"pitched", "hit"}

\* the clock advances; the browser renders at least one frame between two
\* advances
Tick ==
    /\ Playing \/ isSwinging
    /\ sinceFrame = 0
    /\ lastHandler' = "other"
    /\ Step({ elapse(s, d) : s \in {State},
                               d \in { c \in ClockSteps : Busy \/ \A e \in ClockSteps : e <= c } })
    /\ UNCHANGED << variant, currentDifficulty, worldClock >>

Frame ==
    /\ Playing \/ isSwinging
    /\ variant = "scoring"
    /\ lastHandler' = "frame"
    /\ Step({ animate(State, w, sweetSpot, r) :
                w \in WorldOutcomes(State), sweetSpot \in BatPoses(isSwinging),
                r \in RandomDraws })
    /\ UNCHANGED << variant, currentDifficulty, worldClock >>

FrameMain ==
    /\ Playing \/ isSwinging
    /\ variant = "main2"
    /\ lastHandler' = "frame"
    /\ Step({ animateMain(State, w, sweetSpot) :
                w \in WorldOutcomes(State), sweetSpot \in BatPoses(isSwinging) })
    /\ UNCHANGED << variant, currentDifficulty, worldClock >>

KeyR ==
    /\ Playing
    /\ lastHandler' = "keyR"
    /\ Step({ keydownR(s, r) : s \in {State}, r \in RandomDraws })
    /\ UNCHANGED << variant, currentDifficulty, worldClock >>

KeySwing ==
    /\ Playing
    /\ lastHandler' = "swingKey"
    /\ Step({ keydownSwing(s) : s \in {State} })
    /\ UNCHANGED << variant, currentDifficulty, worldClock >>

MouseMove ==
    /\ Playing
    /\ variant = "scoring"
    /\ lastHandler' = "other"
    /\ Step({ mousemove(s, hit) : s \in {State}, hit \in MouseHits })
    /\ UNCHANGED << variant, currentDifficulty, worldClock >>

MouseMoveMain ==
    /\ Playing
    /\ variant = "main2"
    /\ lastHandler' = "other"
    /\ Step({ mousemoveMain(s, move) : s \in {State}, move \in MouseMoves })
    /\ UNCHANGED << variant, currentDifficulty, worldClock >>

DifficultyChange ==
    /\ Playing
    /\ variant = "scoring"
    /\ lastHandler' = "other"
    /\ \E mode \in PickedModes :
          /\ currentDifficulty' = mode
          /\ Step({ difficultyChange(s, r, ConfigOf(variant, mode)) :
                       s \in {State}, r \in RandomDraws })
    /\ UNCHANGED << variant, worldClock >>

\* the window is resized (the handler of main.js:1252 touches only the camera
\* and the renderer)
Resize ==
    /\ Playing
    /\ variant = "scoring"
    /\ lastHandler' = "other"
    /\ Step({ resize(s) : s \in {State} })
    /\ UNCHANGED << variant, currentDifficulty, worldClock >>

\* a pending pitch timer whose delay has passed fires
TimerFire ==
    /\ Playing
    /\ variant # "scoring"
    /\ lastHandler' = "timer"
    /\ \/ /\ pitchTimer.pending
          /\ 0 >= pitchTimer.due
          /\ Step({ pitchTimerCallback(s, TRUE, 0) : s \in {State} })
       \/ \E d \in pitchTimer.superseded :
             /\ 0 >= d
             /\ Step({ pitchTimerCallback(s, FALSE, d) : s \in {State} })
    /\ UNCHANGED << variant, currentDifficulty, worldClock >>

Next ==
    \/ Tick
    \/ Frame
    \/ FrameMain
    \/ KeyR
    \/ KeySwing
    \/ MouseMove
    \/ MouseMoveMain
    \/ DifficultyChange
    \/ Resize
    \/ TimerFire

Spec == Init /\ [][Next]_vars

\* the clock has advanced since the last frame: the animate callback that
\* requestAnimationFrame has queued will run, and it changes the state (it
\* consumes the frame's delta time)
FramePending == (Playing \/ isSwinging) /\ sinceFrame > 0

\* requestAnimationFrame keeps calling animate: a pending frame does not wait
\* for ever.  FramePending implies ENABLED <<Frame \/ FrameMain>>_vars, so this
\* is implied by WF_vars(Frame \/ FrameMain) and assumes no more than it.
FramesKeepRunning ==
    []<>(~FramePending) \/ []<><<Frame \/ FrameMain>>_vars

\* the clock keeps advancing and the frames keep running
FairSpec == Spec /\ WF_vars(Tick) /\ FramesKeepRunning

(***************************************************************************)
(* The pitch loop left to itself: the scoring variant with frames, the     *)
(* clock, the swing key and the mouse, and neither R nor a difficulty      *)
(* change.                                                                 *)
(***************************************************************************)
PitchLoopInit == Init /\ variant = "scoring"

PitchLoopNext == Tick \/ Frame \/ KeySwing \/ MouseMove

PitchLoopSpec ==
    PitchLoopInit /\ [][PitchLoopNext]_vars /\ WF_vars(Tick) /\ FramesKeepRunning

(***************************************************************************)
(* The clock / accumulator loop on its own, for any frame delta, together  *)
(* with what the rigid-body world does with the calls it receives.         *)
(***************************************************************************)
\* wall-clock time between two frames (ms): none, less than a tick, a 50 Hz
\* frame, at and just above the clamp, a stalled tab
FrameDeltas == {0, 5, 20, 50, 51, 60000}

\* cannon-es World.step(dt, timeSinceLastCalled, maxSubSteps), as called at
\* part_001:1221 and main.js:1233: with timeSinceLastCalled given, the world
\* adds it to its own accumulator and runs internal steps of dt while the
\* accumulator holds one and fewer than maxSubSteps have run, then drops what
\* is left beyond a step
worldStep(w, dt, timeSinceLastCalled, maxSubSteps) ==
    LET acc == w.accumulator + timeSinceLastCalled
        n   == Min(acc \div dt, maxSubSteps)
    IN  [ accumulator |-> (acc - n * dt) % dt, steps |-> w.steps + n ]

\* the k calls of world.step of one frame's accumulator loop
RECURSIVE worldLoop(_, _, _)
worldLoop(w, k, deltaTime) ==
    IF k = 0 THEN w
    ELSE worldLoop(worldStep(w, Lit.fixedDt, deltaTime, Lit.maxSubSteps), k - 1, deltaTime)

\* clock.getDelta() of the next frame
LoopElapse ==
    /\ sinceFrame = 0
    /\ lastHandler' = "clock"
    /\ \E d \in FrameDeltas :
          Step({ [s EXCEPT !.sinceFrame = d, !.frameLog = FreshLog] : s \in {State} })
    /\ UNCHANGED << variant, currentDifficulty, worldClock >>

\* the accumulator loop of animate (part_001:1217-1223, main.js:1229-1235)
LoopFrame ==
    /\ lastHandler = "clock"
    /\ lastHandler' = "loop"
    /\ Step({ stepWorld(s, [pos |-> s.ballPos, vel |-> s.ballVel]) : s \in {State} })
    /\ worldClock' = worldLoop([worldClock EXCEPT !.steps = 0],
                               TicksOf(accumulator + DeltaTime(State)), DeltaTime(State))
    /\ UNCHANGED << variant, currentDifficulty >>

LoopNext == LoopElapse \/ LoopFrame

LoopSpec == Init /\ [][LoopNext]_vars

(***************************************************************************)
(* The outcome tracker on its own: a batted ball comes down anywhere        *)
(***************************************************************************)
\* the session is followed for this many landings
MaxLanded == 2

\* where a batted ball is (x, z in cm): beyond the fence, on and just beyond
\* the 48 m and 30 m circles, on and just beyond the foul lines, at and behind
\* the plate
LandingSpots ==
    { <<200, -5000>>, <<0, -4800>>, <<0, -4801>>, <<1800, -2400>>, <<1800, -2401>>,
      <<0, -1000>>, <<105, -100>>, <<106, -100>>, <<-105, -100>>, <<-106, -100>>,
      <<5000, -200>>, <<0, 0>>, <<0, 50>> }

\* its height (cm): on the ground, at and just above the landing height
LandingHeights == {12, 13, 14}

Landed == gameStats.hits + gameStats.fouls

\* contact was resolved and the world has carried the ball somewhere
BallBatted ==
    /\ variant = "scoring"
    /\ Landed < MaxLanded
    /\ lastHandler # "batted"
    /\ lastHandler' = "batted"
    /\ \E p \in LandingSpots, y \in LandingHeights :
          Step({ [s EXCEPT !.ballWasHit = TRUE, !.ballLandingTracked = FALSE,
                           !.ballVel = "hit", !.ballPos = Pos(p[1], y, p[2]),
                           !.frameLog = FreshLog] : s \in {State} })
    /\ UNCHANGED << variant, currentDifficulty, worldClock >>

\* animate calls handleBallLanding (part_001:1231)
BallLanding ==
    /\ lastHandler = "batted"
    /\ lastHandler' = "landing"
    /\ Step({ handleBallLanding(s) : s \in {State} })
    /\ UNCHANGED << variant, currentDifficulty, worldClock >>

LandNext == BallBatted \/ BallLanding

LandSpec == Init /\ [][LandNext]_vars

(***************************************************************************)
(* The grading functions on their own: thresholds and their neighbours     *)
(***************************************************************************)
Around(perfect, good) == {0, perfect, perfect + 1, good, good + 1}

Graded(pci, timing, bat, quality) ==
    [ FreshLog EXCEPT
        !.poll = [NoPoll EXCEPT !.polled = TRUE, !.resolved = TRUE,
                                !.timingDist = timing, !.pciDist2 = pci * pci,
                                !.batDist2 = bat * bat, !.quality = quality] ]

GradeInit ==
    /\ currentDifficulty \in Difficulties
    /\ Boot

GradeContact ==
    /\ lastHandler' = "grade"
    /\ \E pci \in Around(activeConfig.perfectPciDist, activeConfig.goodPciDist),
          timing \in Around(activeConfig.perfectTiming, activeConfig.goodTiming),
          bat \in Around(activeConfig.perfectBatDist, activeConfig.goodBatDist) :
          frameLog' = Graded(pci, timing, bat,
                             classifyContact(pci * pci, timing, bat * bat))
    /\ UNCHANGED << variant, currentDifficulty, sinceFrame, accumulator, isSwinging,
                    swingStartMs, nextSwingAllowedMs, swingUsedThisPitch,
                    swingContactResolved, swingMissQueued, swingForwardDone, nextPitchReadyAt,
                    pitchInFlight, ballWasHit, ballLandingTracked, ballPos, ballVel,
                    ballMesh, pciOffsetX, pciOffsetY, gameStats, pitchTimer,
                    pitchLog, doneLog, swingLog, worldClock >>

GradeHit ==
    /\ lastHandler' = "gradeHit"
    /\ \E pci \in Around(configFirst.perfectPciDist, configFirst.goodPciDist),
          ahead \in { a * sign : a \in Around(configFirst.perfectTiming, configFirst.goodTiming)
                                        \cup {35, 36, 45, 46},
                                 sign \in {-1, 1} } :
          frameLog' = Graded(pci, Abs(ahead), 0,
                             classifyHit(pci * pci, Abs(ahead), ahead))
    /\ UNCHANGED << variant, currentDifficulty, sinceFrame, accumulator, isSwinging,
                    swingStartMs, nextSwingAllowedMs, swingUsedThisPitch,
                    swingContactResolved, swingMissQueued, swingForwardDone, nextPitchReadyAt,
                    pitchInFlight, ballWasHit, ballLandingTracked, ballPos, ballVel,
                    ballMesh, pciOffsetX, pciOffsetY, gameStats, pitchTimer,
                    pitchLog, doneLog, swingLog, worldClock >>

GradeNext == GradeContact \/ GradeHit

GradeSpec == GradeInit /\ [][GradeNext]_vars

(***************************************************************************)
(* The impulse scaling of a resolved contact on its own, for every timing  *)
(* distance the gate of tryResolveContact lets through.                    *)
(***************************************************************************)
\* timing distances looked at (cm)
MaxTimingDist == 200

Impulsed(timingDist) ==
    [ FreshLog EXCEPT
        !.impulses = 1,
        !.poll = [NoPoll EXCEPT !.polled = TRUE, !.resolved = TRUE,
                                !.timingDist = timingDist,
                                !.timingScale = timingScale(timingDist, activeConfig),
                                !.impulseFactor = impulseFactor(timingDist, activeConfig)] ]

ImpulseContact ==
    /\ lastHandler' = "impulse"
    /\ \E timingDist \in 0 .. MaxTimingDist :
          /\ timingDist <= activeConfig.swingWindowZ
          /\ frameLog' = Impulsed(timingDist)
    /\ UNCHANGED << variant, currentDifficulty, sinceFrame, accumulator, isSwinging,
                    swingStartMs, nextSwingAllowedMs, swingUsedThisPitch,
                    swingContactResolved, swingMissQueued, swingForwardDone, nextPitchReadyAt,
                    pitchInFlight, ballWasHit, ballLandingTracked, ballPos, ballVel,
                    ballMesh, pciOffsetX, pciOffsetY, gameStats, pitchTimer,
                    pitchLog, doneLog, swingLog, worldClock >>

ImpulseNext == ImpulseContact

ImpulseSpec == GradeInit /\ [][ImpulseNext]_vars

(***************************************************************************)
(* The swing of the scoring variant under every difficulty, the clock      *)
(* advancing in steps shorter than a phase of the swing.                   *)
(***************************************************************************)
PhaseSteps == {50, 1000}

PhaseInit == Init /\ variant = "scoring"

PhaseTick ==
    /\ Playing \/ isSwinging
    /\ sinceFrame = 0
    /\ lastHandler' = "other"
    /\ Step({ elapse(s, d) : s \in {State},
                               d \in { c \in PhaseSteps : Busy \/ \A e \in PhaseSteps : e <= c } })
    /\ UNCHANGED << variant, currentDifficulty, worldClock >>

\* the difficulty selector changes to any of its options
PhaseDifficultyChange ==
    /\ Playing
    /\ lastHandler' = "other"
    /\ \E mode \in Difficulties :
          /\ currentDifficulty' = mode
          /\ Step({ difficultyChange(s, r, ConfigOf(variant, mode)) :
                       s \in {State}, r \in RandomDraws })
    /\ UNCHANGED << variant, worldClock >>

PhaseNext == PhaseTick \/ Frame \/ KeySwing \/ PhaseDifficultyChange

PhaseSpec == PhaseInit /\ [][PhaseNext]_vars

(***************************************************************************)
(* The first variant of main.js: contact is evaluated once, when the swing *)
(* passes its midpoint.                                                    *)
(***************************************************************************)
\* main.js:479 classifyContact
classifyContactMidpoint(pciDist2, timingDist) ==
    IF Within(pciDist2, activeConfig.perfectPciDist) /\ timingDist <= activeConfig.perfectTiming
    THEN "PERFECT"
    ELSE IF Within(pciDist2, activeConfig.goodPciDist) /\ timingDist <= activeConfig.goodTiming
    THEN "GOOD"
    ELSE "WEAK"

\* main.js:486 evaluateSwing: every path ends in showResult
evaluateSwing(s) ==
    LET zDist == Abs(s.ballPos.z - strikeZoneCenter.z)
        pciDist2 == pciBallDistance(s)
        e == [s EXCEPT !.swingLog = [@ EXCEPT !.evaluations = @ + 1]]
    IN  IF zDist > activeConfig.swingWindowZ \/ s.ballPos.z > strikeZoneCenter.z + Lit.passedEps
        THEN Log(e, "result", "MISS")
        ELSE IF ~WithinPct(pciDist2, activeConfig.goodPciDist, Lit.pciOuterPct)
        THEN Log(e, "result", "MISS")
        ELSE [ e EXCEPT
                 !.ballWasHit = TRUE,
                 !.ballVel = "hit",
                 !.pitchLog = [s.pitchLog EXCEPT !.impulses = @ + 1],
                 !.frameLog = [s.frameLog EXCEPT
                                 !.impulses = @ + 1,
                                 !.result = classifyContactMidpoint(pciDist2, zDist)] ]

\* main.js:203 updateBatSwing: forward up to 55 % of swingDurationMs, then
\* back, then idle
updateBatSwingMidpoint(s, nowMs) ==
    IF ~s.isSwinging THEN s
    ELSE
        LET elapsed == nowMs - s.swingStartMs
        IN  IF elapsed * 100 <= activeConfig.swingDurationMs * 55 THEN s
            ELSE IF elapsed <= activeConfig.swingDurationMs
            THEN IF ~s.swingForwardDone
                 THEN evaluateSwing([s EXCEPT !.swingForwardDone = TRUE])
                 ELSE s
            ELSE [ s EXCEPT
                     !.isSwinging = FALSE,
                     !.swingLog = EndedSwingLog(s.swingLog),
                     !.frameLog = [s.frameLog EXCEPT
                                     !.finished = TRUE,
                                     !.evaluations = s.swingLog.evaluations] ]

\* main.js:567 animate
animateMidpoint(s, w) ==
    Then(Then(Then(Then(stepWorld(s, w),
        LAMBDA s1 : updateBatSwingMidpoint(s1, s1.now)),
        LAMBDA s2 : maybeAutoMissMain(s2)),
        LAMBDA s3 : maybeResetMain(s3)),
        LAMBDA s4 : copyMesh(s4))

\* main.js:456-468: the swing branch of keydown (Z)
keydownSwingMidpoint(s) ==
    LET k == [ s EXCEPT !.frameLog = FreshLog ]
    IN  IF SwingGuardFails(s) THEN k
        ELSE [ k EXCEPT
                 !.isSwinging = TRUE,
                 !.swingStartMs = s.now,
                 !.swingForwardDone = FALSE,
                 !.swingUsedThisPitch = TRUE,
                 !.nextSwingAllowedMs = s.now + activeConfig.swingCooldownMs,
                 !.pitchLog = [s.pitchLog EXCEPT !.swings = @ + 1],
                 !.swingLog = [NoSwingLog EXCEPT !.cooldown = activeConfig.swingCooldownMs],
                 !.frameLog = [FreshLog EXCEPT !.accepted = TRUE] ]

\* wall-clock advances between two events of this variant (ms)
MidpointSteps == {50, 100}

MidpointInit ==
    /\ currentDifficulty = "easy"
    /\ variant = "main1"
    /\ Booted

MidpointTick ==
    /\ sinceFrame = 0
    /\ lastHandler' = "other"
    /\ Step({ elapse(s, d) : s \in {State}, d \in MidpointSteps })
    /\ UNCHANGED << variant, currentDifficulty, worldClock >>

FrameMidpoint ==
    /\ lastHandler' = "frame"
    /\ Step({ animateMidpoint(State, w) : w \in WorldOutcomes(State) })
    /\ UNCHANGED << variant, currentDifficulty, worldClock >>

KeySwingMidpoint ==
    /\ lastHandler' = "swingKey"
    /\ Step({ keydownSwingMidpoint(s) : s \in {State} })
    /\ UNCHANGED << variant, currentDifficulty, worldClock >>

MidpointNext ==
    \/ MidpointTick
    \/ FrameMidpoint
    \/ KeySwingMidpoint
    \/ KeyR
    \/ TimerFire

MidpointSpec == MidpointInit /\ [][MidpointNext]_vars

(***************************************************************************)
(* The launch direction of the impulse mappers on its own: applyHitImpulse *)
(* of the mouse-click variant and the hitDir of the two tryResolveContact. *)
(***************************************************************************)
\* the coefficients of the direction vector, in hundredths: part_000:254-258,
\* part_001:1127-1131, main.js:1174-1178
hitDirLiterals ==
    [ first   |-> [xGain |-> 85, yBase |-> 75, yPci |-> 65, yTiming |-> 20,
                   zBase |-> 105, zLateral |-> 20],
      scoring |-> [xGain |-> 82, yBase |-> 82, yPci |-> 62, yTiming |-> 20,
                   zBase |-> 105, zLateral |-> 14],
      main2   |-> [xGain |-> 78, yBase |-> 78, yPci |-> 58, yTiming |-> 20,
                   zBase |-> 104, zLateral |-> 16] ]

Mappers == DOMAIN hitDirLiterals

\* half the zone's width and height and the timing tolerance the mapper
\* divides by (cm); part_000:72-77 and part_000:20 for the mouse-click variant
HitZone(mapper, d) ==
    IF mapper = "first"
    THEN [halfW |-> 41, halfH |-> 50, tol |-> configFirst.hitPlaneTolerance]
    ELSE [halfW |-> ConfigOf(mapper, d).strikeZoneWidth \div 2,
          halfH |-> ConfigOf(mapper, d).strikeZoneHeight \div 2,
          tol   |-> ConfigOf(mapper, d).hitPlaneTolerance]

\* fault: the forward component gives way to the whole lateral extremity
hitDirForwardGivesWay(mapper, d, pciX, pciY, timingDist) ==
    LET zn == HitZone(mapper, d)
        l  == hitDirLiterals[mapper]
        unit == zn.halfW * zn.halfH * zn.tol
        xInfluence == Clamp(pciX, -zn.halfW, zn.halfW) * zn.halfH * zn.tol
        yInfluence == Clamp(pciY, -zn.halfH, zn.halfH) * zn.halfW * zn.tol
        scale == (zn.tol - Clamp(timingDist, 0, zn.tol)) * zn.halfW * zn.halfH
    IN  [ mapper |-> mapper, pciX |-> pciX, pciY |-> pciY,
          x |-> l.xGain * xInfluence,
          y |-> l.yBase * unit + l.yPci * yInfluence + l.yTiming * scale,
          z |-> l.zBase * unit - 100 * Abs(xInfluence) ]

\* the direction vector before normalize(), every component as a multiple of
\* 1 / (100 * halfW * halfH * tol): xInfluence, yInfluence and timingScale are
\* the clamped quotients of the code times halfW * halfH * tol
hitDir(mapper, d, pciX, pciY, timingDist) ==
    LET zn == HitZone(mapper, d)
        l  == hitDirLiterals[mapper]
        unit == zn.halfW * zn.halfH * zn.tol
        xInfluence == Clamp(pciX, -zn.halfW, zn.halfW) * zn.halfH * zn.tol
        yInfluence == Clamp(pciY, -zn.halfH, zn.halfH) * zn.halfW * zn.tol
        scale == (zn.tol - Clamp(timingDist, 0, zn.tol)) * zn.halfW * zn.halfH
    IN  [ mapper |-> mapper, pciX |-> pciX, pciY |-> pciY,
          x |-> l.xGain * xInfluence,
          y |-> l.yBase * unit + l.yPci * yInfluence + l.yTiming * scale,
          z |-> l.zBase * unit - l.zLateral * Abs(xInfluence) ]

\* PCI offsets within the zone: its edges, its centre and their neighbours
PciSamples(half) ==
    { sign * o : o \in {0, 1, half \div 2, half - 1, half}, sign \in {-1, 1} }

HitDirection ==
    /\ lastHandler' = "hitDir"
    /\ \E mapper \in Mappers :
          LET zn == HitZone(mapper, currentDifficulty)
          IN  \E pciX \in PciSamples(zn.halfW), pciY \in PciSamples(zn.halfH),
                 timingDist \in {0, zn.tol \div 2, zn.tol} :
                frameLog' = [FreshLog EXCEPT
                               !.hitDir = hitDir(mapper, currentDifficulty, pciX, pciY, timingDist)]
    /\ UNCHANGED << variant, currentDifficulty, sinceFrame, accumulator, isSwinging,
                    swingStartMs, nextSwingAllowedMs, swingUsedThisPitch,
                    swingContactResolved, swingMissQueued, swingForwardDone, nextPitchReadyAt,
                    pitchInFlight, ballWasHit, ballLandingTracked, ballPos, ballVel,
                    ballMesh, pciOffsetX, pciOffsetY, gameStats, pitchTimer,
                    pitchLog, doneLog, swingLog, worldClock >>

HitDirNext == HitDirection

HitDirSpec == GradeInit /\ [][HitDirNext]_vars

(***************************************************************************)
(* randomPitchVelocity on its own, in the mouse-click variant and in the   *)
(* two variants with pitch archetypes.                                     *)
(***************************************************************************)
\* pitch envelope of the scoring variant: part_001:25-28 and the difficulty
\* profiles part_001:50-53, 69-72, 88-91 (speeds m/s, breaks cm/s)
pitchProfiles ==
    [ easy   |-> [pitchSpeedMin |-> 9,  pitchSpeedMax |-> 13, breakX |-> 20, breakY |-> 10],
      normal |-> [pitchSpeedMin |-> 12, pitchSpeedMax |-> 17, breakX |-> 45, breakY |-> 25],
      hard   |-> [pitchSpeedMin |-> 14, pitchSpeedMax |-> 20, breakX |-> 80, breakY |-> 40] ]

\* what randomPitchVelocity reads: the zone, the spawn point, the share of the
\* zone the target is drawn from (percent) and the pitch envelope
Pitcher(p, d) ==
    IF p = "first"
    THEN [ center |-> Pos(0, 125, -200), spawn |-> Pos(0, 145, -1800),
           width |-> 82, height |-> 100, xSpread |-> 80, ySpread |-> 80,
           archetypes |-> FALSE,
           pitchSpeedMin |-> 28, pitchSpeedMax |-> 35, breakX |-> 180, breakY |-> 120 ]
    ELSE IF p = "scoring"
    THEN Merge([ center |-> ZoneCenter(p), spawn |-> SpawnOf(p),
                 width |-> ConfigOf(p, d).strikeZoneWidth,
                 height |-> ConfigOf(p, d).strikeZoneHeight,
                 xSpread |-> 85, ySpread |-> 82, archetypes |-> TRUE ],
               pitchProfiles[d])
    ELSE [ center |-> ZoneCenter(p), spawn |-> SpawnOf(p),
           width |-> ConfigOf(p, d).strikeZoneWidth,
           height |-> ConfigOf(p, d).strikeZoneHeight,
           xSpread |-> 85, ySpread |-> 82, archetypes |-> TRUE,
           pitchSpeedMin |-> 25, pitchSpeedMax |-> 32, breakX |-> 170, breakY |-> 110 ]

Pitchers == {"first", "scoring", "main2"}

\* `r < 0.45 ? 'FASTBALL' : r < 0.75 ? 'CURVE' : 'DROP'`
pitchTypeOf(r) == IF r < 45 THEN "FASTBALL" ELSE IF r < 75 THEN "CURVE" ELSE "DROP"

\* speed bonus (mm/s) and break factors (percent) of the archetypes
archetypeLiterals ==
    [ PLAIN    |-> [bonus |-> 0,    breakX |-> 100, breakY |-> 100, drop |-> 0],
      FASTBALL |-> [bonus |-> 1600, breakX |-> 35,  breakY |-> 35,  drop |-> 0],
      CURVE    |-> [bonus |-> 0,    breakX |-> 120, breakY |-> 55,  drop |-> 0],
      DROP     |-> [bonus |-> 0,    breakX |-> 50,  breakY |-> 100, drop |-> 80] ]

\* fault: the target is drawn from the whole width of the zone
randomPitchVelocityWholeZone(p, d, draws) ==
    LET c == Pitcher(p, d)
        pitchType == IF c.archetypes THEN pitchTypeOf(draws.type) ELSE "PLAIN"
        a == archetypeLiterals[pitchType]
        tx == (draws.x - 50) * c.width * 100
        ty == (draws.y - 50) * c.height * c.ySpread
        toTarget == Pos(tx - c.spawn.x * 10000,
                        (c.center.y - c.spawn.y) * 10000 + ty,
                        c.center.z - c.spawn.z)
        speed == 10 * (c.pitchSpeedMin * (100 - draws.speed) + c.pitchSpeedMax * draws.speed)
                 + a.bonus
        breakY == (draws.by - 50) * c.breakY * a.breakY
    IN  [ pitcher |-> p, pitchType |-> pitchType,
          target |-> Pos(tx, ty, c.center.z), toTarget |-> toTarget, speed |-> speed,
          breakX |-> (draws.bx - 50) * c.breakX * a.breakX,
          breakY |-> (breakY * 100 - Abs(breakY) * a.drop) \div 100,
          vzLen |-> IF toTarget = Pos(0, 0, 0) THEN 0 ELSE toTarget.z * speed ]

\* randomPitchVelocity, the draws in percent.  target.x and target.y are the
\* offsets of the target from the zone centre in 1/10000 cm, target.z is in
\* cm; toTarget is the vector before normalize() in the same units; speed is
\* in mm/s and the breaks in 1/10000 cm/s.  The returned velocity is
\* toTarget * speed / |toTarget| + (breakX, breakY, 0): vzLen is its z
\* component times |toTarget| (normalize() leaves a zero vector zero).
randomPitchVelocity(p, d, draws) ==
    LET c == Pitcher(p, d)
        pitchType == IF c.archetypes THEN pitchTypeOf(draws.type) ELSE "PLAIN"
        a == archetypeLiterals[pitchType]
        tx == (draws.x - 50) * c.width * c.xSpread
        ty == (draws.y - 50) * c.height * c.ySpread
        toTarget == Pos(tx - c.spawn.x * 10000,
                        (c.center.y - c.spawn.y) * 10000 + ty,
                        c.center.z - c.spawn.z)
        speed == 10 * (c.pitchSpeedMin * (100 - draws.speed) + c.pitchSpeedMax * draws.speed)
                 + a.bonus
        breakY == (draws.by - 50) * c.breakY * a.breakY
    IN  [ pitcher |-> p, pitchType |-> pitchType,
          target |-> Pos(tx, ty, c.center.z), toTarget |-> toTarget, speed |-> speed,
          breakX |-> (draws.bx - 50) * c.breakX * a.breakX,
          breakY |-> (breakY * 100 - Abs(breakY) * a.drop) \div 100,
          vzLen |-> IF toTarget = Pos(0, 0, 0) THEN 0 ELSE toTarget.z * speed ]

\* Math.random() in percent: the ends of [0, 1), the middle and the
\* thresholds of the archetypes
PitchDraws ==
    [ type : {0, 45, 75}, x : {0, 50, 99}, y : {0, 99},
      speed : {0, 99}, bx : {0, 99}, by : {0, 99} ]

PitchVelocity ==
    /\ lastHandler' = "pitchVelocity"
    /\ \E p \in Pitchers, draws \in PitchDraws :
          frameLog' = [FreshLog EXCEPT
                         !.pitch = randomPitchVelocity(p, currentDifficulty, draws)]
    /\ UNCHANGED << variant, currentDifficulty, sinceFrame, accumulator, isSwinging,
                    swingStartMs, nextSwingAllowedMs, swingUsedThisPitch,
                    swingContactResolved, swingMissQueued, swingForwardDone, nextPitchReadyAt,
                    pitchInFlight, ballWasHit, ballLandingTracked, ballPos, ballVel,
                    ballMesh, pciOffsetX, pciOffsetY, gameStats, pitchTimer,
                    pitchLog, doneLog, swingLog, worldClock >>

PitchVelNext == PitchVelocity

PitchVelSpec == GradeInit /\ [][PitchVelNext]_vars

(***************************************************************************)
(* PROPERTIES                                                              *)
(***************************************************************************)

\* C1: in the scoring variant the hit impulse is applied at most once between
\* two consecutive calls of queueBallAtMound, in the interval still open and in
\* the one the last reset closed.
C1_ImpulseAtMostOncePerPitch ==
    variant = "scoring" =>
        /\ pitchLog.impulses <= 1
        /\ doneLog.impulses <= 1

\* a frame inside the contact window of a swing whose contact is already
\* resolved, with the ball still where it was hit: the resolver is not polled
C1_LatchedFrameInWindow ==
    /\ variant = "scoring"
    /\ isSwinging
    /\ swingContactResolved
    /\ pitchLog.impulses = 1
    /\ lastHandler = "frame"
    /\ frameLog.phase = "contact"
    /\ frameLog.polls = 0
    /\ Abs(ballPos.z - strikeZoneCenter.z) <= activeConfig.swingWindowZ

\* C2 (as stated): in the scoring variant a pitch on which contact was resolved
\* has exactly one landing classification when its per-pitch state is cleared,
\* and a pitch without contact has none.
C2_OneLandingPerHitPitch ==
    (variant = "scoring" /\ doneLog.valid) =>
        doneLog.landings = (IF doneLog.hit THEN 1 ELSE 0)

\* C3 (as stated): a swing that ends without contact having been resolved
\* during it finalizes a miss (and one out in the scoring variant), whatever
\* happened while it was active.
C3_EverySwingWithoutContactMisses ==
    [][ (isSwinging /\ ~isSwinging' /\ ~swingLog.contact) =>
            /\ frameLog'.miss = 1
            /\ variant = "scoring" => gameStats'.outs = gameStats.outs + 1 ]_vars

\* C3 (amended): a swing that ends finalizes a miss (and exactly one out in the
\* scoring variant) exactly when neither contact was resolved nor a per-pitch
\* reset happened while it was active; otherwise it ends without miss or out.
C3_MissUnlessContactOrReset ==
    [][ (isSwinging /\ ~isSwinging') =>
            LET missed == ~swingLog.contact /\ ~swingLog.reset
            IN  /\ frameLog'.miss = (IF missed THEN 1 ELSE 0)
                /\ variant = "scoring" =>
                      gameStats'.outs = gameStats.outs + (IF missed THEN 1 ELSE 0) ]_vars

\* a swing of the scoring variant has just ended in a miss and one out
C3_SwingEndedInMiss ==
    /\ variant = "scoring"
    /\ frameLog.finished
    /\ frameLog.miss = 1
    /\ gameStats.outs = 1
    /\ ~isSwinging

\* C4: a swing trigger is ignored when the cooldown has not expired, a swing is
\* active, the swing of this pitch is used or (scoring variant) no pitch is in
\* flight, and then leaves the six swing variables unchanged; otherwise it is
\* accepted and sets isSwinging, swingUsedThisPitch and swingMissQueued.
C4_SwingTriggerGuard ==
    [][ lastHandler' = "swingKey" =>
            IF \/ 0 < nextSwingAllowedMs
               \/ isSwinging
               \/ swingUsedThisPitch
               \/ (variant = "scoring" /\ ~pitchInFlight)
            THEN /\ ~frameLog'.accepted
                 /\ UNCHANGED << isSwinging, swingStartMs, nextSwingAllowedMs,
                                 swingUsedThisPitch, swingContactResolved, swingMissQueued >>
            ELSE /\ frameLog'.accepted
                 /\ isSwinging' /\ swingUsedThisPitch' /\ swingMissQueued' ]_vars

\* a trigger ignored for the cooldown alone (timer variant, after an R reset)
C4_IgnoredDuringCooldownOnly ==
    /\ lastHandler = "swingKey"
    /\ ~frameLog.accepted
    /\ nextSwingAllowedMs > 0
    /\ ~isSwinging
    /\ ~swingUsedThisPitch

\* C5: at most one swing is accepted between two consecutive per-pitch resets,
\* and a swing is never accepted while another one is active.
C5_OneSwingPerPitch ==
    [][ /\ pitchLog'.swings <= 1
        /\ (lastHandler' = "swingKey" /\ frameLog'.accepted) => ~isSwinging ]_vars

\* a second trigger on the same pitch, pressed after the swing and its cooldown
\* are over, is ignored
C5_SecondTriggerIgnored ==
    /\ lastHandler = "swingKey"
    /\ ~frameLog.accepted
    /\ pitchLog.swings = 1
    /\ ~isSwinging
    /\ nextSwingAllowedMs = 0

\* C6: isSwinging becomes false only in a frame whose updateBatSwing finds the
\* elapsed time since swingStartMs at least swingDurationMs (no key, mouse
\* move, R reset, difficulty change or out-of-play reset ends a swing), and
\* while frames keep running every active swing returns to Idle.
C6_SwingRunsToCompletion ==
    /\ [][ (isSwinging /\ ~isSwinging') =>
              /\ lastHandler' = "frame"
              /\ 0 - swingStartMs >= activeConfig.swingDurationMs ]_vars
    /\ (isSwinging ~> ~isSwinging)

\* a swing that is still active after an R reset (the ball is back at the mound)
C6_SwingSurvivesReset ==
    /\ isSwinging
    /\ swingLog.reset
    /\ ballPos = spawnPos
    /\ lastHandler = "frame"

\* C7: PERFECT exactly when every measure is within its perfect threshold,
\* otherwise GOOD exactly when every measure is within its good threshold,
\* otherwise WEAK (classifyContact: PCI, timing, bat; classifyHit, when it does
\* not answer MISS: PCI, timing).
C7_NestedThresholds ==
    LET p == frameLog.poll
    IN  /\ lastHandler = "grade" =>
              LET c == activeConfig
                  allPerfect == /\ p.pciDist2 <= c.perfectPciDist * c.perfectPciDist
                                /\ p.timingDist <= c.perfectTiming
                                /\ p.batDist2 <= c.perfectBatDist * c.perfectBatDist
                  allGood    == /\ p.pciDist2 <= c.goodPciDist * c.goodPciDist
                                /\ p.timingDist <= c.goodTiming
                                /\ p.batDist2 <= c.goodBatDist * c.goodBatDist
              IN  /\ p.quality = "PERFECT" <=> allPerfect
                  /\ p.quality = "GOOD" <=> (~allPerfect /\ allGood)
                  /\ p.quality = "WEAK" <=> (~allPerfect /\ ~allGood)
        /\ (lastHandler = "gradeHit" /\ p.quality # "MISS") =>
              LET c == configFirst
                  allPerfect == /\ p.pciDist2 <= c.perfectPciDist * c.perfectPciDist
                                /\ p.timingDist <= c.perfectTiming
                  allGood    == /\ p.pciDist2 <= c.goodPciDist * c.goodPciDist
                                /\ p.timingDist <= c.goodTiming
              IN  /\ p.quality = "PERFECT" <=> allPerfect
                  /\ p.quality = "GOOD" <=> (~allPerfect /\ allGood)
                  /\ p.quality = "WEAK" <=> (~allPerfect /\ ~allGood)

\* perfect aim and bat placement with timing that is only good: graded GOOD
C7_PreciseAimAloneIsGood ==
    /\ lastHandler = "grade"
    /\ frameLog.poll.quality = "GOOD"
    /\ frameLog.poll.pciDist2 <= activeConfig.perfectPciDist * activeConfig.perfectPciDist
    /\ frameLog.poll.batDist2 <= activeConfig.perfectBatDist * activeConfig.perfectBatDist
    /\ frameLog.poll.timingDist > activeConfig.perfectTiming

\* the four bounds of tryResolveContact in the scoring variant, on what a poll saw
C8_Bounds(p) ==
    /\ p.timingDist <= activeConfig.swingWindowZ
    /\ p.ballZ <= strikeZoneCenter.z + 60
    /\ p.pciDist2 <= ((activeConfig.goodPciDist * 200) * (activeConfig.goodPciDist * 200)) \div 10000
    /\ p.batDist2 <= ((activeConfig.goodBatDist * 195) * (activeConfig.goodBatDist * 195)) \div 10000

\* C8 (as stated, last part): a swing during which no poll saw the ball inside
\* the timing tolerance ends as MISS.
C8_OutsideToleranceEndsMiss ==
    [][ (variant = "scoring" /\ isSwinging /\ ~isSwinging' /\ ~swingLog.near) =>
            frameLog'.miss = 1 ]_vars

\* C8 (amended): in the scoring variant a poll resolves contact only if the four
\* bounds hold; a poll where one fails applies no impulse and leaves
\* swingContactResolved, swingMissQueued and ballWasHit as they were; a swing
\* during which no poll saw the ball inside the timing tolerance, and during
\* which no per-pitch reset happened, ends as MISS.
C8_ResolveOnlyWithinBounds ==
    [][ variant = "scoring" =>
          /\ frameLog'.poll.polled =>
                /\ frameLog'.poll.resolved => C8_Bounds(frameLog'.poll)
                /\ ~C8_Bounds(frameLog'.poll) =>
                      /\ frameLog'.impulses = 0
                      /\ pitchLog'.impulses = pitchLog.impulses \/ pitchLog'.impulses = 0
                      /\ frameLog'.poll.flags =
                            << swingContactResolved, swingMissQueued, ballWasHit >>
          /\ (isSwinging /\ ~isSwinging' /\ ~swingLog.near /\ ~swingLog.reset) =>
                frameLog'.miss = 1 ]_vars

\* a poll that found the ball inside the timing and PCI bounds but too far from
\* the bat: nothing resolved
C8_PollRejectedByBatBound ==
    /\ variant = "scoring"
    /\ frameLog.poll.polled
    /\ ~frameLog.poll.resolved
    /\ frameLog.poll.timingDist <= activeConfig.swingWindowZ
    /\ frameLog.poll.ballZ <= strikeZoneCenter.z + 60
    /\ frameLog.poll.pciDist2
          <= ((activeConfig.goodPciDist * 200) * (activeConfig.goodPciDist * 200)) \div 10000
    /\ ~swingContactResolved
    /\ swingMissQueued

\* C9: the resolver is polled, and an impulse applied, only in a frame in which
\* a swing is active with contactWindowStart <= t <= contactWindowEnd.
C9_PolledOnlyInContactWindow ==
    [][ (\/ frameLog'.polls > 0
         \/ frameLog'.impulses > 0
         \/ (ballWasHit' /\ ~ballWasHit)
         \/ (swingContactResolved' /\ ~swingContactResolved)) =>
            /\ lastHandler' = "frame"
            /\ isSwinging
            /\ (0 - swingStartMs) * 100 >= activeConfig.contactWindowStart * activeConfig.swingDurationMs
            /\ (0 - swingStartMs) * 100 <= activeConfig.contactWindowEnd * activeConfig.swingDurationMs ]_vars

\* a frame of an active swing before its contact window, with the ball inside
\* the timing tolerance: the resolver is not polled
C9_NoPollWhileLoading ==
    /\ lastHandler = "frame"
    /\ isSwinging
    /\ frameLog.polls = 0
    /\ (0 - swingStartMs) * 100 < activeConfig.contactWindowStart * activeConfig.swingDurationMs
    /\ ballVel = "pitched"
    /\ Abs(ballPos.z - strikeZoneCenter.z) <= activeConfig.swingWindowZ
    /\ ballPos.z <= strikeZoneCenter.z

C11_OneStepPerIteration ==
    lastHandler = "loop" => worldClock.steps = frameLog.ticks

\* C12: a frame adds at most 0.05 s to the accumulator however long the wall
\* clock ran; the loop emits at most 5 ticks (fixedDt = 1/90 s) or 6 ticks
\* (fixedDt = 1/120 s), as many as fixed steps fit into the accumulated time,
\* and leaves 0 <= accumulator < fixedDt.
C12_ClampedTicks ==
    [][ lastHandler' = "loop" =>
          LET added == accumulator' + frameLog'.ticks * Lit.fixedDt - accumulator
          IN  /\ added = (IF sinceFrame * UnitsPerMs < MaxFrameDelta
                          THEN sinceFrame * UnitsPerMs ELSE MaxFrameDelta)
              /\ frameLog'.ticks <= (IF variant = "scoring" THEN 5 ELSE 6)
              /\ 0 <= accumulator' /\ accumulator' < Lit.fixedDt ]_vars

\* a frame that ran the largest number of ticks and kept a remainder
C12_FrameWithMostTicks ==
    /\ lastHandler = "loop"
    /\ frameLog.ticks = (IF variant = "scoring" THEN 5 ELSE 6)
    /\ accumulator > 0

\* C13: in every reachable state the PCI offset lies within the half extents of
\* the strike zone, whatever mouse moves, R resets, difficulty changes and
\* window resizes happened.
C13_PciWithinZone ==
    /\ Abs(pciOffsetX) <= HalfW
    /\ Abs(pciOffsetY) <= HalfH

\* the cursor is beyond the corner of the zone and the PCI sits on the corner
C13_PciAtCorner ==
    /\ variant = "scoring"
    /\ lastHandler = "other"
    /\ pciOffsetX = HalfW
    /\ pciOffsetY = HalfH
    /\ \E hit \in MouseHits : hit[1] > HalfW /\ hit[2] > HalfH

\* C14: a batted ball that lands fair (z <= 0, |x| <= 1.05 |z|) more than 48 m
\* away is a home run: homeruns, hits and score each go up by exactly 1, fouls
\* and outs stay.
C14_HomeRunCounted ==
    [][ (/\ lastHandler' = "landing"
         /\ ballPos.y <= 13
         /\ ballPos.z <= 0
         /\ 100 * Abs(ballPos.x) <= 105 * Abs(ballPos.z)
         /\ ballPos.x * ballPos.x + ballPos.z * ballPos.z > 4800 * 4800) =>
            /\ frameLog'.landing = "homerun"
            /\ gameStats' = [gameStats EXCEPT !.homeruns = @ + 1, !.hits = @ + 1,
                                              !.score = @ + 1] ]_vars

\* the ball of the scenario, landed at x = 2 m, z = -50 m, counted as a home run
C14_LandedBeyondFence ==
    /\ lastHandler = "landing"
    /\ ballPos.x = 200 /\ ballPos.z = -5000
    /\ ballLandingTracked
    /\ gameStats.homeruns = 1 /\ gameStats.hits = 1 /\ gameStats.score = 1
    /\ gameStats.fouls = 0 /\ gameStats.outs = 0

\* C15: a landing records exactly one outcome: a foul (fouls + 1 and nothing
\* else) exactly when z > 0 or |x| > 1.05 |z|; otherwise a fair hit (hits + 1)
\* whose score goes up by 1 exactly when the distance exceeds 30 m and whose
\* homeruns go up by 1 exactly when it exceeds 48 m; outs never change.
C15_LandingOutcome ==
    [][ (lastHandler' = "landing" /\ ballPos.y <= 13) =>
          LET foul == ballPos.z > 0 \/ 100 * Abs(ballPos.x) > 105 * Abs(ballPos.z)
              d2   == ballPos.x * ballPos.x + ballPos.z * ballPos.z
              one(c) == IF c THEN 1 ELSE 0
          IN  /\ ballLandingTracked'
              /\ pitchLog'.landings = pitchLog.landings + 1
              /\ gameStats' =
                    IF foul THEN [gameStats EXCEPT !.fouls = @ + 1]
                    ELSE [gameStats EXCEPT !.hits = @ + 1,
                                           !.score = @ + one(d2 > 3000 * 3000),
                                           !.homeruns = @ + one(d2 > 4800 * 4800)] ]_vars

\* a ball that landed just outside the foul line, counted as a foul only
C15_JustFoul ==
    /\ lastHandler = "landing"
    /\ ballPos.x = 106 /\ ballPos.z = -100
    /\ gameStats = [score |-> 0, hits |-> 0, homeruns |-> 0, fouls |-> 1, outs |-> 0]

\* C16: no operation (frame, swing, landing, auto-miss, R reset, difficulty
\* change) lowers one of the session counters score, hits, homeruns, fouls and
\* outs, and none raises a counter by more than 1.
C16_CountersMonotone ==
    [][ \A c \in DOMAIN gameStats :
            /\ gameStats[c] <= gameStats'[c]
            /\ gameStats'[c] <= gameStats[c] + 1 ]_vars

\* a frame whose auto-miss counted the session's first out
C16_AutoMissCounted ==
    /\ lastHandler = "frame"
    /\ frameLog.autoMiss = 1
    /\ frameLog.outs = 1
    /\ gameStats.outs = 1

(***************************************************************************)
(* C17  Per-pitch reset                                                    *)
(***************************************************************************)
\* the state scheduleNextPitch leaves behind under the configuration in force
\* after the step
AfterPerPitchReset ==
    LET cfg == ConfigOf(variant, currentDifficulty)
    IN  /\ ~swingUsedThisPitch
        /\ ~swingContactResolved
        /\ ~swingMissQueued
        /\ ~pitchInFlight
        /\ ~ballWasHit
        /\ ~ballLandingTracked
        /\ ballPos = spawnPos
        /\ ballVel = "zero"
        /\ nextPitchReadyAt >= cfg.postSwingDelayMinMs
        /\ nextPitchReadyAt <= cfg.postSwingDelayMaxMs

\* C17: in the scoring variant a frame in which a pitch in flight is found
\* outside the playable volume, a frame with an auto-miss and a frame in which
\* a swing completes each perform a per-pitch reset, and after every step that
\* performed one (these frames, R, a difficulty change) the six per-pitch
\* flags are false, the ball rests at spawnPos with zero velocity and
\* nextPitchReadyAt lies between postSwingDelayMinMs and postSwingDelayMaxMs
\* after the time of the step.
C17_PerPitchReset ==
    [][ variant = "scoring" =>
          /\ (frameLog'.outside \/ frameLog'.autoMiss > 0 \/ frameLog'.finished)
                => frameLog'.resets > 0
          /\ frameLog'.resets > 0 => AfterPerPitchReset' ]_vars

\* a frame found the pitch outside the playable volume and reset it, with
\* neither an auto-miss nor a swing completing in that frame
C17_OutOfPlayReset ==
    /\ variant = "scoring"
    /\ lastHandler = "frame"
    /\ frameLog.outside
    /\ frameLog.autoMiss = 0
    /\ ~frameLog.finished
    /\ frameLog.resets = 1
    /\ nextPitchReadyAt > activeConfig.postSwingDelayMinMs

(***************************************************************************)
(* C18  Launch gate                                                        *)
(***************************************************************************)
\* C18: in the scoring variant a pitch is launched only by a frame that
\* starts with pitchInFlight false and nextPitchReadyAt not after now; at that
\* moment at least postSwingDelayMinMs have passed since the most recent
\* per-pitch reset and no pitch launched since that reset.
C18_LaunchOnlyWhenReady ==
    [][ (variant = "scoring" /\ frameLog'.launched) =>
          /\ lastHandler' = "frame"
          /\ ~pitchInFlight
          /\ nextPitchReadyAt <= 0
          /\ pitchLog.age >= activeConfig.postSwingDelayMinMs
          /\ pitchLog.launches = 0 ]_vars

\* a frame has launched the pitch that a change to the hard difficulty scheduled
C18_LaunchedAfterDelay ==
    /\ variant = "scoring"
    /\ currentDifficulty = "hard"
    /\ lastHandler = "frame"
    /\ frameLog.launched
    /\ pitchInFlight
    /\ pitchLog.launches = 1

(***************************************************************************)
(* C19  R against the pending schedule and the pending cooldown            *)
(***************************************************************************)
\* the launch schedule after R is R's own: the scoring variant waits a fresh
\* post-swing delay with no pitch in flight, the timer variant holds one timer
\* due after the R delay
LaunchRescheduledByR ==
    IF variant = "scoring"
    THEN /\ ~pitchInFlight
         /\ nextPitchReadyAt >= activeConfig.postSwingDelayMinMs
         /\ nextPitchReadyAt <= activeConfig.postSwingDelayMaxMs
    ELSE pitchTimer.pending /\ pitchTimer.due = Lit.rDelay

\* C19: after R the launch schedule is R's own and no swing cooldown is
\* pending any more.
C19_ResetSupersedesLaunchAndCooldown ==
    [][ lastHandler' = "keyR" =>
          /\ LaunchRescheduledByR'
          /\ nextSwingAllowedMs' <= 0 ]_vars

\* C19 (amended): after R the launch schedule is R's own and the pitch's swing
\* is available again, while the swing cooldown is exactly what it was before
\* R; a trigger that follows R with the cooldown still pending is ignored.
C19_ResetSupersedesLaunchOnly ==
    [][ /\ lastHandler' = "keyR" =>
              /\ LaunchRescheduledByR'
              /\ ~swingUsedThisPitch'
              /\ nextSwingAllowedMs' = nextSwingAllowedMs
        /\ (lastHandler = "keyR" /\ lastHandler' = "swingKey" /\ nextSwingAllowedMs > 0)
              => ~frameLog'.accepted ]_vars

\* in the timer variant a trigger right after R is ignored although the swing
\* has ended and the pitch's swing is unused: only the cooldown blocks it
C19_BlockedByCooldownAfterR ==
    /\ variant = "main2"
    /\ lastHandler = "swingKey"
    /\ ~frameLog.accepted
    /\ nextSwingAllowedMs > 0
    /\ ~isSwinging
    /\ ~swingUsedThisPitch
    /\ pitchTimer.pending
    /\ pitchTimer.due = Lit.rDelay

(***************************************************************************)
(* C20  One pending pitch timer                                            *)
(***************************************************************************)
\* the pitch timers in the browser's queue: the one pitchTimer names, while it
\* is pending, and the pending ones it named before
PendingPitchTimers ==
    Cardinality(pitchTimer.superseded) + (IF pitchTimer.pending THEN 1 ELSE 0)

\* C20: in the timer variant, whatever the order of R presses, out-of-play
\* resets, frames and timer callbacks, at most one pitch timer is pending and
\* it is the one pitchTimer names; a pitch is launched only by the callback of
\* that timer, at least the reset's delay after the reset, and at most once
\* per reset.
C20_OnePendingPitchTimer ==
    [][ variant = "main2" =>
          /\ PendingPitchTimers' <= 1
          /\ pitchTimer'.superseded = {}
          /\ pitchLog'.launches <= 1
          /\ frameLog'.launched =>
                /\ lastHandler' = "timer"
                /\ pitchTimer.pending
                /\ ~pitchTimer'.pending
                /\ pitchLog.launches = 0
                /\ pitchLog.age >= pitchTimer.delay ]_vars

\* R was pressed while the timer of the reset before it was pending (that
\* reset's pitch was never launched), and the pitch was launched by the timer
\* R set
C20_LaunchedByTimerOfR ==
    /\ variant = "main2"
    /\ doneLog.valid
    /\ doneLog.launches = 0
    /\ lastHandler = "timer"
    /\ frameLog.launched
    /\ pitchTimer.delay = Lit.rDelay
    /\ ~pitchTimer.pending
    /\ pitchLog.launches = 1

(***************************************************************************)
(* C21  R resets the pitch and the PCI                                     *)
(***************************************************************************)
\* C21: after R the PCI offset is (0, 0), the ball rests at the spawn position
\* with zero velocity, no pitch is in flight, a new pitch is scheduled, and
\* score, hits, homeruns, fouls and outs are what they were before R.
C21_ResetPitchAndPci ==
    [][ lastHandler' = "keyR" =>
          /\ pciOffsetX' = 0
          /\ pciOffsetY' = 0
          /\ ballPos' = spawnPos
          /\ ballVel' = "zero"
          /\ ~pitchInFlight'
          /\ LaunchRescheduledByR'
          /\ gameStats' = gameStats ]_vars

\* R has taken back a pitch that was launched
C21_ResetDuringFlight ==
    /\ lastHandler = "keyR"
    /\ doneLog.valid
    /\ doneLog.launches = 1
    /\ pciOffsetX = 0
    /\ ballVel = "zero"

(***************************************************************************)
(* C22  The pitch loop repeats                                             *)
(***************************************************************************)
\* C22: with frames and the clock running and neither R nor a difficulty
\* change, as long as the session is followed: when no pitch is in flight a
\* pitch is eventually launched, every launch is eventually followed by a
\* per-pitch reset, and from every state a further pitch is launched.
C22_PitchLoopRepeats ==
    /\ (Playing /\ ~pitchInFlight) ~> (frameLog.launched \/ ~Playing)
    /\ frameLog.launched ~> (frameLog.resets > 0)
    /\ Playing ~> (frameLog.launched \/ ~Playing)

\* the pitch after a pitch that was launched and reset is launched
C22_SecondPitchLaunched ==
    /\ lastHandler = "frame"
    /\ frameLog.launched
    /\ doneLog.valid
    /\ doneLog.launches = 1
    /\ pitchLog.launches = 1

(***************************************************************************)
(* C23  Accepted swings are a cooldown apart                               *)
(***************************************************************************)
\* C23: when a swing trigger is accepted, at least the swingCooldownMs that
\* was in force when the previous trigger was accepted has passed since that
\* trigger, whatever key presses, resets and difficulty changes came between.
C23_SwingsCooldownApart ==
    [][ (lastHandler' = "swingKey" /\ frameLog'.accepted) =>
          swingLog.age >= swingLog.cooldown ]_vars

\* a swing is accepted on the pitch after one whose swing made contact
C23_SecondSwingAccepted ==
    /\ lastHandler = "swingKey"
    /\ frameLog.accepted
    /\ doneLog.valid
    /\ doneLog.impulses = 1
    /\ pitchLog.swings = 1

(***************************************************************************)
(* C24  PCI distance against the zone diagonal                             *)
(***************************************************************************)
\* the square of the zone's diagonal half-extent
HalfDiagonal2 == Hypot2(HalfW, HalfH)

\* the ball's x, y lie within the strike-zone rectangle
BallInZoneRectangle ==
    /\ Abs(ballPos.x - strikeZoneCenter.x) <= HalfW
    /\ Abs(ballPos.y - strikeZoneCenter.y) <= HalfH

\* C24: in every reachable state pciBallDistance is at most the zone's
\* diagonal half-extent.
C24_PciDistanceWithinHalfDiagonal ==
    pciBallDistance(State) <= HalfDiagonal2

\* C24 (amended): in every reachable state the PCI is at most the zone's
\* diagonal half-extent away from the zone centre, and while the ball's x, y
\* lie within the zone rectangle pciBallDistance is at most the zone's full
\* diagonal.
C24_PciOffsetWithinHalfDiagonal ==
    /\ Hypot2(pciOffsetX, pciOffsetY) <= HalfDiagonal2
    /\ BallInZoneRectangle => pciBallDistance(State) <= 4 * HalfDiagonal2

\* the PCI in a corner of the zone while a pitch crosses the zone at its centre
C24_PciInCornerBallAtCentre ==
    /\ ballVel = "pitched"
    /\ BallInZoneRectangle
    /\ Abs(pciOffsetX) = HalfW
    /\ Abs(pciOffsetY) = HalfH
    /\ pciBallDistance(State) = HalfDiagonal2

(***************************************************************************)
(* C25  Timing precision and the impulse factor                            *)
(***************************************************************************)
\* C25: a contact resolved with timingDist = 0 has timingScale 1, a contact
\* resolved with timingDist strictly inside the window that gates contact has
\* timingScale > 0, and the impulse factor is strictly smaller for every
\* larger timingDist the gate lets through.
C25_TimingScaleToGateEdge ==
    lastHandler = "impulse" =>
        LET p == frameLog.poll
            c == activeConfig
        IN  /\ p.timingDist = 0 => p.timingScale = c.hitPlaneTolerance
            /\ p.timingDist < c.swingWindowZ => p.timingScale > 0
            /\ \A e \in 0 .. MaxTimingDist :
                  (p.timingDist < e /\ e <= c.swingWindowZ)
                      => impulseFactor(e, c) < p.impulseFactor

\* C25 (amended): timingScale is 1 at timingDist = 0 and positive exactly for
\* timingDist below hitPlaneTolerance; the impulse factor lies between its
\* base and base + spread, never grows with timingDist, and is strictly
\* smaller for a larger timingDist when the smaller one is below
\* hitPlaneTolerance.
C25_TimingScaleToTolerance ==
    lastHandler = "impulse" =>
        LET p == frameLog.poll
            c == activeConfig
        IN  /\ p.timingDist = 0 => p.timingScale = c.hitPlaneTolerance
            /\ p.timingScale > 0 <=> p.timingDist < c.hitPlaneTolerance
            /\ p.impulseFactor >= Lit.factorBase * c.hitPlaneTolerance
            /\ p.impulseFactor <= (Lit.factorBase + Lit.factorSpread) * c.hitPlaneTolerance
            /\ \A e \in 0 .. MaxTimingDist :
                  (p.timingDist < e /\ e <= c.swingWindowZ) =>
                      /\ impulseFactor(e, c) <= p.impulseFactor
                      /\ p.timingDist < c.hitPlaneTolerance
                            => impulseFactor(e, c) < p.impulseFactor

\* a contact resolved beyond hitPlaneTolerance and strictly inside the gate:
\* the timing adds nothing to the impulse
C25_ResolvedBeyondTolerance ==
    /\ lastHandler = "impulse"
    /\ frameLog.poll.resolved
    /\ frameLog.poll.timingDist > activeConfig.hitPlaneTolerance
    /\ frameLog.poll.timingDist < activeConfig.swingWindowZ
    /\ frameLog.poll.timingScale = 0
    /\ frameLog.poll.impulseFactor = Lit.factorBase * activeConfig.hitPlaneTolerance

(***************************************************************************)
(* C26  The forward component of the launch direction                      *)
(***************************************************************************)
\* C26: for every PCI offset within the zone and every timing precision the
\* z component of the launch direction is positive and strictly larger in
\* magnitude than the x component and than the y component.
C26_ForwardDominates ==
    lastHandler = "hitDir" =>
        LET h == frameLog.hitDir
        IN  /\ h.z > 0
            /\ h.z > Abs(h.x)
            /\ h.z > Abs(h.y)

\* C26 (amended): the z component is positive and at least as large in
\* magnitude as the x component, the two being equal only in the mouse-click
\* variant with the PCI on the left or right edge of the zone, and the y
\* component is positive.
C26_ForwardNotBelowLateral ==
    lastHandler = "hitDir" =>
        LET h == frameLog.hitDir
        IN  /\ h.z > 0
            /\ h.z >= Abs(h.x)
            /\ h.z = Abs(h.x) =>
                  /\ h.mapper = "first"
                  /\ Abs(h.pciX) = HitZone("first", currentDifficulty).halfW
            /\ h.y > 0

\* a launch from the top of the zone: it is more upward than forward
C26_MoreUpwardThanForward ==
    /\ lastHandler = "hitDir"
    /\ frameLog.hitDir.mapper = "first"
    /\ frameLog.hitDir.pciX = 0
    /\ frameLog.hitDir.pciY = HitZone("first", currentDifficulty).halfH
    /\ frameLog.hitDir.y > frameLog.hitDir.z

(***************************************************************************)
(* C27  randomPitchVelocity                                                *)
(***************************************************************************)
\* C27: for every draw the target of the pitch lies strictly inside the strike
\* zone on the zone's plane, it differs from the spawn point, and the velocity
\* has a positive z component (so it is not zero), for every archetype.
C27_PitchAimsInsideZone ==
    lastHandler = "pitchVelocity" =>
        LET v == frameLog.pitch
            c == Pitcher(v.pitcher, currentDifficulty)
        IN  /\ 2 * Abs(v.target.x) < c.width * 10000
            /\ 2 * Abs(v.target.y) < c.height * 10000
            /\ v.target.z = c.center.z
            /\ v.toTarget # Pos(0, 0, 0)
            /\ v.speed > 0
            /\ v.vzLen > 0

\* a drop pitch aimed at the low corner of the zone with the lowest speed
C27_DropToLowCorner ==
    /\ lastHandler = "pitchVelocity"
    /\ frameLog.pitch.pitchType = "DROP"
    /\ frameLog.pitch.target.x < 0
    /\ frameLog.pitch.target.y < 0
    /\ frameLog.pitch.breakY < 0
    /\ frameLog.pitch.speed = 1000 * Pitcher(frameLog.pitch.pitcher, currentDifficulty).pitchSpeedMin

(***************************************************************************)
(* C28  One evaluation per swing (first variant of main.js)                *)
(***************************************************************************)
\* C28: in the first variant of main.js every accepted swing has called
\* evaluateSwing exactly once when it returns to idle.
C28_EvaluatedExactlyOnce ==
    (variant = "main1" /\ frameLog.finished) => frameLog.evaluations = 1

(***************************************************************************)
(* C29  Every swing polls the contact resolver                             *)
(***************************************************************************)
\* C29: in the contact-window variants a swing returns to idle only after
\* tryResolveContact has been evaluated at least once during it, whatever the
\* time between two frames.
C29_PolledBeforeIdle ==
    [][ (lastHandler' = "frame" /\ frameLog'.finished)
            => (swingLog.polled \/ frameLog'.polls > 0) ]_vars

(***************************************************************************)
(* C30  One ball position per contact decision                             *)
(***************************************************************************)
\* the poll passed the timing and the PCI gate, so it measured batDist
BatDistanceMeasured(p) ==
    /\ p.polled
    /\ p.timingDist <= activeConfig.swingWindowZ
    /\ p.ballZ <= strikeZoneCenter.z + Lit.passedEps
    /\ WithinPct(p.pciDist2, activeConfig.goodPciDist, Lit.pciOuterPct)

\* C30: in a frame where tryResolveContact measures batDist, the position it
\* measures it against (ballMesh.position) is the position timingDist and
\* pciDist were measured against (ballBody.position after the frame's ticks).
C30_OneBallPositionPerDecision ==
    (lastHandler = "frame" /\ BatDistanceMeasured(frameLog.poll)) => frameLog.poll.meshIsBall

(***************************************************************************)
(* C31  The ball is at the spawn position when the pitch is launched       *)
(***************************************************************************)
\* C31: when the pitch velocity is assigned (the timer callback of
\* resetAndPitch, launchPitch in the scoring variant) the ball is where the
\* per-pitch reset has placed it, at spawnPos.
C31_LaunchedFromSpawn ==
    frameLog.launched => ballPos = spawnPos

(***************************************************************************)
(* C32  No landing in the frame of the contact                             *)
(***************************************************************************)
\* C32: a frame in which contact is resolved records no landing
\* classification.
C32_NoLandingInContactFrame ==
    (lastHandler = "frame" /\ frameLog.impulses > 0) => frameLog.landing = "none"

(***************************************************************************)
(* C33  The phases of a swing are visited in order                         *)
(***************************************************************************)
\* the order of the phases: loading, contact-eligible, follow-through, idle
PhaseRank(phase) ==
    CASE phase = "idle" -> 0
      [] phase = "loading" -> 1
      [] phase = "contact" -> 2
      [] phase = "follow" -> 3
      [] phase = "done" -> 4

\* C33: the phase updateBatSwing computes in a frame of an active swing is
\* never an earlier one than the phase it computed in the frame before, also
\* when the difficulty has been changed in between.
C33_PhaseNeverDecreases ==
    [][ (isSwinging /\ lastHandler' = "frame")
            => PhaseRank(frameLog'.phase) >= PhaseRank(swingLog.phase) ]_vars

====
